---------------------------- MODULE Spec2Model ----------------------------
(***************************************************************************)
(* Box Audit: the session data model of js/data.js and the handlers of the *)
(* main application script that drive it.                                  *)
(*                                                                         *)
(* Strings are sequences of one-character strings, so that the regular     *)
(* expressions of normalizeBoxNumber and parseQuantity are computed and    *)
(* not assumed.  A nullable value is <<>> (null) or <<v>>.                 *)
(*                                                                         *)
(* JavaScript objects have identity: a session object lives in `heap`      *)
(* under an object id, and `window.BoxData.currentSession` (object WinRef, *)
(* captured once when data.js is evaluated), the module variable           *)
(* `currentSession` (cur) and the entries of `history` are references.     *)
(*                                                                         *)
(* The local constants of a function are the parameters of the operators   *)
(* that continue it, under the names they have in the source.              *)
(***************************************************************************)
EXTENDS Integers, Sequences, FiniteSets, TLC

(***************************************************************************)
(* Bounds of the model.                                                    *)
(***************************************************************************)
MaxClock == 5
MaxHistory == 2

(***************************************************************************)
(* Characters and strings.                                                 *)
(***************************************************************************)
Null == <<>>

Some(v) == <<v>>

IsNull(o) == o = <<>>

Val(o) == o[1]

LowerLetters ==
    << "a","b","c","d","e","f","g","h","i","j","k","l","m",
       "n","o","p","q","r","s","t","u","v","w","x","y","z" >>

UpperLetters ==
    << "A","B","C","D","E","F","G","H","I","J","K","L","M",
       "N","O","P","Q","R","S","T","U","V","W","X","Y","Z" >>

DigitChars == << "0","1","2","3","4","5","6","7","8","9" >>

Range(s) == { s[i] : i \in DOMAIN s }

IsDigit(c) == c \in Range(DigitChars)

NotDigit(c) == c \notin Range(DigitChars)

IsLetter(c) == c \in Range(LowerLetters) \cup Range(UpperLetters)

IsSpace(c) == c = " "

IndexIn(s, c) == CHOOSE i \in DOMAIN s : s[i] = c

ToUpperChar(c) ==
    IF c \in Range(LowerLetters) THEN UpperLetters[IndexIn(LowerLetters, c)] ELSE c

ToLowerChar(c) ==
    IF c \in Range(UpperLetters) THEN LowerLetters[IndexIn(UpperLetters, c)] ELSE c

toUpperCase(s) == [i \in DOMAIN s |-> ToUpperChar(s[i])]

toLowerCase(s) == [i \in DOMAIN s |-> ToLowerChar(s[i])]

\* The length of the longest prefix of s whose characters all satisfy P.
PrefixLen(s, P(_)) ==
    IF \A i \in DOMAIN s : P(s[i]) THEN Len(s)
    ELSE (CHOOSE i \in DOMAIN s : ~P(s[i]) /\ \A j \in 1..(i-1) : P(s[j])) - 1

\* The length of the longest suffix of s whose characters all satisfy P.
SuffixLen(s, P(_)) ==
    IF \A i \in DOMAIN s : P(s[i]) THEN Len(s)
    ELSE Len(s) - (CHOOSE i \in DOMAIN s : ~P(s[i]) /\ \A j \in (i+1)..Len(s) : P(s[j]))

Drop(s, n) == SubSeq(s, n + 1, Len(s))

Take(s, n) == SubSeq(s, 1, n)

Last(s) == s[Len(s)]

Front(s) == SubSeq(s, 1, Len(s) - 1)

trimStart(s) == Drop(s, PrefixLen(s, IsSpace))

trimEnd(s) == Take(s, Len(s) - SuffixLen(s, IsSpace))

trim(s) == trimEnd(trimStart(s))

StartsWith(s, p) == Len(s) >= Len(p) /\ Take(s, Len(p)) = p

\* parseInt(digits, 10) for a run of digits.
RECURSIVE parseInt(_)
parseInt(ds) ==
    IF ds = <<>> THEN 0
    ELSE 10 * parseInt(Front(ds)) + (IndexIn(DigitChars, Last(ds)) - 1)

\* Number.prototype.toString() of a natural number.
RECURSIVE numToString(_)
numToString(n) ==
    IF n < 10 THEN << DigitChars[n + 1] >>
    ELSE Append(numToString(n \div 10), DigitChars[(n % 10) + 1])

RECURSIVE padStart(_, _, _)
padStart(s, n, c) == IF Len(s) >= n THEN s ELSE padStart(<<c>> \o s, n, c)

(***************************************************************************)
(* Location Normalizer.                                                    *)
(***************************************************************************)
ShelfWord == << "S","H","E","L","F" >>

BoxWord == << "B","O","X" >>

PadWidth == 3

\* s matches /^(\d+)([A-Za-z]*)$/
DigitsThenLetters(s) ==
    /\ PrefixLen(s, IsDigit) >= 1
    /\ \A i \in (PrefixLen(s, IsDigit) + 1)..Len(s) : IsLetter(s[i])

\* upper.match(/^<prefix>\s*(\d+)([A-Za-z]*)$/i): null, or the string
\* `SHELF ${num}${letter}` built from the two groups, which together are
\* what follows the prefix and the spaces.
ShelfPattern(upper, prefix) ==
    IF /\ StartsWith(toUpperCase(upper), prefix)
       /\ DigitsThenLetters(trimStart(Drop(upper, Len(prefix))))
    THEN Some(ShelfWord \o << " " >> \o trimStart(Drop(upper, Len(prefix))))
    ELSE Null

\* The digits at the head of s.
LeadingDigits(s) == Take(s, PrefixLen(s, IsDigit))

\* upper.match(/\d+/): the first run of digits, or <<>>.
FirstDigitRun(s) == LeadingDigits(Drop(s, PrefixLen(s, NotDigit)))

\* normalizeBoxNumber with the box pattern tried before the shelf patterns.
BoxNumberOfBoxFirst(upper, shelfMatch, sMatch, numStr) ==
    IF numStr # <<>>
    THEN Some(BoxWord \o padStart(numToString(parseInt(numStr)), PadWidth, "0"))
    ELSE IF ~IsNull(shelfMatch) THEN shelfMatch
    ELSE IF ~IsNull(sMatch) THEN sMatch
    ELSE Some(upper)

\* normalizeBoxNumber from its three matches on.
BoxNumberOf(upper, shelfMatch, sMatch, numStr) ==
    IF ~IsNull(shelfMatch) THEN shelfMatch
    ELSE IF ~IsNull(sMatch) THEN sMatch
    ELSE IF numStr # <<>>
         THEN Some(BoxWord \o padStart(numToString(parseInt(numStr)), PadWidth, "0"))
    ELSE Some(upper)

\* normalizeBoxNumber from `upper` on.
BoxNumberOfUpper(upper) ==
    BoxNumberOf(upper, ShelfPattern(upper, ShelfWord), ShelfPattern(upper, << "S" >>),
                FirstDigitRun(upper))

normalizeBoxNumber(boxNumber) ==
    IF boxNumber = <<>> THEN Null ELSE BoxNumberOfUpper(trim(toUpperCase(boxNumber)))

\* normalizeShelfLocation from `upper` on.
ShelfLocationOfUpper(upper) ==
    IF ~IsNull(ShelfPattern(upper, ShelfWord)) THEN ShelfPattern(upper, ShelfWord)
    ELSE ShelfPattern(upper, << "S" >>)

normalizeShelfLocation(value) ==
    IF value = <<>> THEN Null ELSE ShelfLocationOfUpper(trim(toUpperCase(value)))

(***************************************************************************)
(* parseLocationInput.  String.prototype.match without the g flag gives    *)
(* the leftmost match; a match is kept as its position and its length.     *)
(***************************************************************************)
\* !value for a nullable string: null and "" are falsy.
Falsy(o) == IsNull(o) \/ Val(o) = <<>>

\* \w
IsWordChar(c) == IsLetter(c) \/ IsDigit(c) \/ c = "_"

\* The length of the match of /\s*\d+/ at the head of r, 0 for no match.
SpacesDigitsLen(r) ==
    IF PrefixLen(trimStart(r), IsDigit) = 0 THEN 0
    ELSE PrefixLen(r, IsSpace) + PrefixLen(trimStart(r), IsDigit)

\* The length of the match of /\s*\d+[A-Za-z]*/ at the head of r.
SpacesDigitsLettersLen(r) ==
    IF SpacesDigitsLen(r) = 0 THEN 0
    ELSE SpacesDigitsLen(r) + PrefixLen(Drop(r, SpacesDigitsLen(r)), IsLetter)

\* The length of the match of /<word>\s*\d+[A-Za-z]*/i at the head of t.
WordShelfLen(t, word) ==
    IF StartsWith(toUpperCase(t), word) /\ SpacesDigitsLettersLen(Drop(t, Len(word))) > 0
    THEN Len(word) + SpacesDigitsLettersLen(Drop(t, Len(word)))
    ELSE 0

\* The length of the match of /SHELF\s*\d+[A-Za-z]*|S\s*\d+[A-Za-z]*/i at
\* the head of t.
ShelfMatchLen(t) ==
    IF WordShelfLen(t, ShelfWord) > 0 THEN WordShelfLen(t, ShelfWord)
    ELSE WordShelfLen(t, << "S" >>)

\* The length of the match of /<word>\s*\d+/i at the head of t.
WordBoxLen(t, word) ==
    IF StartsWith(toUpperCase(t), word) /\ SpacesDigitsLen(Drop(t, Len(word))) > 0
    THEN Len(word) + SpacesDigitsLen(Drop(t, Len(word)))
    ELSE 0

\* The length of the match of /\b\d+\b/ at position i of s: the run of
\* digits from i, when no word character is before it or after it.
BareNumberLen(s, i) ==
    IF /\ i = 1 \/ ~IsWordChar(s[i - 1])
       /\ PrefixLen(Drop(s, i - 1), IsDigit) > 0
       /\ \/ i - 1 + PrefixLen(Drop(s, i - 1), IsDigit) = Len(s)
          \/ ~IsWordChar(s[i + PrefixLen(Drop(s, i - 1), IsDigit)])
    THEN PrefixLen(Drop(s, i - 1), IsDigit)
    ELSE 0

\* The length of the match of /BOX\s*\d+|B\s*\d+|\b\d+\b/i at position i.
BoxMatchLen(s, i) ==
    IF WordBoxLen(Drop(s, i - 1), BoxWord) > 0 THEN WordBoxLen(Drop(s, i - 1), BoxWord)
    ELSE IF WordBoxLen(Drop(s, i - 1), << "B" >>) > 0 THEN WordBoxLen(Drop(s, i - 1), << "B" >>)
    ELSE BareNumberLen(s, i)

\* The position of the leftmost match, given the length of the match at
\* every position; 0 when there is none.
MatchStart(lens) ==
    IF \A i \in DOMAIN lens : lens[i] = 0 THEN 0
    ELSE CHOOSE i \in DOMAIN lens : lens[i] > 0 /\ \A j \in 1..(i-1) : lens[j] = 0

\* s.replace(m, ' ') for the match m of length n at position i.
ReplaceBySpace(s, i, n) == Take(s, i - 1) \o << " " >> \o Drop(s, i - 1 + n)

ShelfLens(s) == [i \in DOMAIN s |-> ShelfMatchLen(Drop(s, i - 1))]

BoxLens(s) == [i \in DOMAIN s |-> BoxMatchLen(s, i)]

\* parseLocationInput from the decision on `remaining` on.
LocationOf(shelf, box, remaining) ==
    IF trim(remaining) # <<>> THEN Null
    ELSE IF ~Falsy(box) /\ ~Falsy(shelf) THEN Some([primary |-> Val(box), secondary |-> shelf])
    ELSE IF ~Falsy(box) THEN Some([primary |-> Val(box), secondary |-> Null])
    ELSE IF ~Falsy(shelf) THEN Some([primary |-> Val(shelf), secondary |-> Null])
    ELSE Null

\* parseLocationInput from boxMatch on; i is the position of boxMatch in
\* remaining, 0 for null.
LocationWithBox(shelf, remaining, i) ==
    IF i = 0 THEN LocationOf(shelf, Null, remaining)
    ELSE LocationOf(shelf,
                    normalizeBoxNumber(SubSeq(remaining, i, i - 1 + BoxMatchLen(remaining, i))),
                    ReplaceBySpace(remaining, i, BoxMatchLen(remaining, i)))

\* parseLocationInput from `remaining` on.
LocationAfterShelf(shelf, remaining) ==
    LocationWithBox(shelf, remaining, MatchStart(BoxLens(remaining)))

\* parseLocationInput from shelfMatch on; i is the position of shelfMatch
\* in trimmed, 0 for null.
LocationWithShelf(trimmed, i) ==
    IF i = 0 THEN LocationAfterShelf(Null, trimmed)
    ELSE LocationAfterShelf(
             normalizeShelfLocation(SubSeq(trimmed, i, i - 1 + ShelfLens(trimmed)[i])),
             ReplaceBySpace(trimmed, i, ShelfLens(trimmed)[i]))

parseLocationInput(raw) ==
    IF trim(raw) = <<>> THEN Null
    ELSE LocationWithShelf(trim(raw), MatchStart(ShelfLens(trim(raw))))

(***************************************************************************)
(* Quantity Parser.  A match is null or the digits of the group and the    *)
(* text before the match.                                                  *)
(***************************************************************************)
TrailingDigits(s) == Drop(s, Len(s) - SuffixLen(s, IsDigit))

BeforeDigits(s) == Take(s, Len(s) - SuffixLen(s, IsDigit))

\* /\s+[xX](\d+)$/ on a text t without trailing spaces.
XPatternOf(t) ==
    IF /\ TrailingDigits(t) # <<>>
       /\ Len(BeforeDigits(t)) >= 2
       /\ Last(BeforeDigits(t)) \in {"x", "X"}
       /\ IsSpace(Last(Front(BeforeDigits(t))))
    THEN Some([digits |-> TrailingDigits(t), before |-> trimEnd(Front(BeforeDigits(t)))])
    ELSE Null

\* name.match(/\s+[xX](\d+)\s*$/)
xPattern(name) == XPatternOf(trimEnd(name))

\* /\s*\((\d+)\)$/ on a text t without trailing spaces.
ParenPatternOf(t) ==
    IF /\ t # <<>>
       /\ Last(t) = ")"
       /\ TrailingDigits(Front(t)) # <<>>
       /\ BeforeDigits(Front(t)) # <<>>
       /\ Last(BeforeDigits(Front(t))) = "("
    THEN Some([digits |-> TrailingDigits(Front(t)),
               before |-> trimEnd(Front(BeforeDigits(Front(t))))])
    ELSE Null

\* name.match(/\s*\((\d+)\)\s*$/)
parenPattern(name) == ParenPatternOf(trimEnd(name))

\* parseInt(m[1], 10) || 1
QtyOf(digits) == IF parseInt(digits) = 0 THEN 1 ELSE parseInt(digits)

\* The result of parseQuantity for a match m; `before` is a trimmed name, so
\* name.replace(pattern, '').trim() is m.before.
ParsedMatch(itemName, m) ==
    [name |-> IF Val(m).before = <<>> THEN itemName ELSE Val(m).before,
     qty  |-> QtyOf(Val(m).digits)]

\* parseQuantity from the trimmed `name` on.
ParsedName(itemName, name) ==
    IF ~IsNull(xPattern(name)) THEN ParsedMatch(itemName, xPattern(name))
    ELSE IF ~IsNull(parenPattern(name)) THEN ParsedMatch(itemName, parenPattern(name))
    ELSE [name |-> IF name = <<>> THEN itemName ELSE name, qty |-> 1]

parseQuantity(itemName) ==
    IF itemName = <<>> THEN [name |-> itemName, qty |-> 1]
    ELSE ParsedName(itemName, trim(itemName))

(***************************************************************************)
(* JavaScript objects used as ordered maps: session.boxes is a sequence of *)
(* [key, data] entries in property order.                                  *)
(***************************************************************************)
NullKey == << "n","u","l","l" >>

\* The property key a nullable string is converted to (boxes[null] reads
\* the property "null").
KeyOf(o) == IF IsNull(o) THEN NullKey ELSE Val(o)

\* value || null for a nullable string
StrOrNull(o) == IF Falsy(o) THEN Null ELSE o

HasBox(boxes, k) == \E i \in DOMAIN boxes : boxes[i].key = k

BoxIndex(boxes, k) == CHOOSE i \in DOMAIN boxes : boxes[i].key = k

BoxAt(boxes, k) == boxes[BoxIndex(boxes, k)].data

BoxKeys(boxes) == [i \in DOMAIN boxes |-> boxes[i].key]

\* An integer-like key ("42", not "042"): such properties are enumerated
\* first, in ascending numeric order, whatever their insertion order.
IsArrayIndex(k) ==
    /\ k # <<>>
    /\ \A i \in DOMAIN k : IsDigit(k[i])
    /\ numToString(parseInt(k)) = k

InsertAt(s, n, e) == Take(s, n) \o << e >> \o Drop(s, n)

RemoveAt(s, i) == Take(s, i - 1) \o Drop(s, i)

\* The number of integer-like keys of boxes below the integer-like key k.
IndexesBelow(boxes, k) ==
    Cardinality({ i \in DOMAIN boxes :
                    IsArrayIndex(boxes[i].key) /\ parseInt(boxes[i].key) < parseInt(k) })

\* boxes[k] = data
SetBox(boxes, k, data) ==
    IF HasBox(boxes, k) THEN [boxes EXCEPT ![BoxIndex(boxes, k)].data = data]
    ELSE IF IsArrayIndex(k)
         THEN InsertAt(boxes, IndexesBelow(boxes, k), [key |-> k, data |-> data])
    ELSE Append(boxes, [key |-> k, data |-> data])

\* delete boxes[k]
DeleteBox(boxes, k) ==
    IF HasBox(boxes, k) THEN RemoveAt(boxes, BoxIndex(boxes, k)) ELSE boxes

(***************************************************************************)
(* Data shape.                                                             *)
(***************************************************************************)
createEmptyBoxData ==
    [items |-> <<>>, completed |-> FALSE, completedAt |-> Null, secondaryLocation |-> Null]

\* A stored record may lack fields; the fields that are present have the
\* types of the schema.
ensureBoxDataShape(boxData) ==
    [items             |-> IF "items" \in DOMAIN boxData THEN boxData.items ELSE <<>>,
     completed         |-> IF "completed" \in DOMAIN boxData THEN boxData.completed ELSE FALSE,
     completedAt       |-> IF "completedAt" \in DOMAIN boxData THEN boxData.completedAt ELSE Null,
     secondaryLocation |-> IF "secondaryLocation" \in DOMAIN boxData
                           THEN boxData.secondaryLocation ELSE Null]

EmptySession == [id |-> Null, startedAt |-> Null, boxes |-> <<>>]

(***************************************************************************)
(* JSON.  A text is <<"json", value>> or <<"garbage">> (no JSON document). *)
(* Parsing builds every object anew, property by property, so integer-like *)
(* keys move to the front of a boxes map.                                  *)
(***************************************************************************)
GarbageText == << "garbage" >>

RECURSIVE BuildBoxes(_, _)
BuildBoxes(entries, acc) ==
    IF entries = <<>> THEN acc
    ELSE BuildBoxes(Tail(entries), SetBox(acc, Head(entries).key, Head(entries).data))

JSONstringify(v) == << "json", v >>

JSONparseOk(text) == text[1] = "json"

\* The object a document v describes.
Revive(v) ==
    IF "boxes" \in DOMAIN v THEN [v EXCEPT !.boxes = BuildBoxes(v.boxes, <<>>)] ELSE v

JSONparse(text) == Revive(text[2])

\* JSON.parse(JSON.stringify(v))
DeepCopy(v) == JSONparse(JSONstringify(v))

(***************************************************************************)
(* The state of data.js as a record d, so that the functions of the module *)
(* compose as they call each other:                                        *)
(*   heap          object id -> session object                             *)
(*   cur           the object `currentSession` refers to                   *)
(*   history       the snapshot objects, oldest first                      *)
(*   historyIndex  the cursor, from 0, -1 for an empty history             *)
(*   primary       localStorage['boxAuditSession'] (null or a text)        *)
(*   backup        sessionStorage['boxAuditSession_backup']                *)
(*   migrated      localStorage['boxAudit_completedMigration_v1'] = 'true' *)
(*   electron      window.electronAPI is present                           *)
(*   clock         the time of the last event that changed anything; the   *)
(*                 handler of an event runs one unit later, and its        *)
(*                 `new Date()` and Date.now() read that time              *)
(***************************************************************************)
WinRef == 0

Cur(d) == d.heap[d.cur]

Win(d) == d.heap[WinRef]

SetCur(d, s) == [d EXCEPT !.heap[d.cur] = s]

SetWin(d, s) == [d EXCEPT !.heap[WinRef] = s]

SetMax(S) == CHOOSE m \in S : \A n \in S : n <= m

\* The state with object ref added, holding s.
Allocate(d, ref, s) ==
    [d EXCEPT !.heap = [r \in DOMAIN d.heap \cup {ref} |-> IF r = ref THEN s ELSE d.heap[r]]]

\* The reference a new object gets.
NewRef(d) == SetMax(DOMAIN d.heap) + 1

\* currentSession = <a new object holding s>
AssignCur(d, s) == [Allocate(d, NewRef(d), s) EXCEPT !.cur = NewRef(d)]

Tick(d) == [d EXCEPT !.clock = d.clock + 1]

ensureBoxExists(d, boxKey) ==
    IF ~HasBox(Cur(d).boxes, boxKey)
    THEN SetCur(d, [Cur(d) EXCEPT !.boxes = SetBox(@, boxKey, createEmptyBoxData)])
    ELSE SetCur(d, [Cur(d) EXCEPT !.boxes =
                       SetBox(@, boxKey, ensureBoxDataShape(BoxAt(@, boxKey)))])

(***************************************************************************)
(* Persistence: saveToStorage.                                             *)
(* The stores can fail: fileFault is "ok" or "fails" (fs.writeFileSync     *)
(* throws in the main process), localFault is "ok", "throws" (setItem      *)
(* throws, as over quota) or "drops" (setItem returns and the value is not *)
(* the one read back); sessionFault is "ok" or "throws".  saving counts    *)
(* the activations of saveToStorage that are inside its try block, timers  *)
(* the follow-up saves scheduled with setTimeout and not yet run, and      *)
(* saveError is the message last passed to window.showSaveError.           *)
(***************************************************************************)
BackupOnlyMessage == "Data saved to session backup only (Persistence failed)."

ErrorSavingMessage == "Error saving: "

\* localStorage.setItem('boxAuditSession', text), when it returns
SetPrimary(d, text) ==
    IF d.localFault = "ok" THEN [d EXCEPT !.primary = Some(text)] ELSE d

\* The write to the primary store came through: setItem did not throw and
\* verify === dataToSave.
Verified(d, text) == d.localFault # "throws" /\ SetPrimary(d, text).primary = Some(text)

\* The Electron branch: saveData is ipcRenderer.invoke('save-data', data), a
\* Promise and so truthy; the main process writes JSON.stringify(data) to
\* the data file, or, when writeFileSync throws, resolves the Promise to
\* false.  The setItem that follows has its exception swallowed.
ElectronSave(d, text) ==
    IF d.fileFault = "ok"
    THEN [SetPrimary(d, text) EXCEPT !.file = Some(text)]
    ELSE SetPrimary(d, text)

\* The inner catch block with the warning and no backup write.
WarnOnly(d, text) == [d EXCEPT !.saveError = Some(BackupOnlyMessage)]

\* The inner catch block: the backup write and the warning, or, when
\* sessionStorage.setItem throws, the outer catch block.
BackupSave(d, text) ==
    IF d.sessionFault = "throws"
    THEN [d EXCEPT !.saveError = Some(ErrorSavingMessage)]
    ELSE [d EXCEPT !.backup = Some(text), !.saveError = Some(BackupOnlyMessage)]

\* The LocalStorage branch.
LocalSave(d, text) ==
    IF Verified(d, text) THEN SetPrimary(d, text) ELSE BackupSave(SetPrimary(d, text), text)

\* The try block of saveToStorage with dataToSave = text.
WriteText(d, text) == IF d.electron THEN ElectronSave(d, text) ELSE LocalSave(d, text)

WriteSection(d) == WriteText(d, JSONstringify(Cur(d)))

\* The finally block without the follow-up save.
FinallyWithoutFollowUp(d) ==
    [d EXCEPT !.saveInProgress = FALSE, !.savePending = FALSE, !.saving = @ - 1]

\* The finally block.
Finally(d) ==
    [d EXCEPT !.saveInProgress = FALSE,
              !.savePending = FALSE,
              !.timers = IF d.savePending THEN @ + 1 ELSE @,
              !.saving = @ - 1]

\* saveToStorage up to the try block without the guard.
EnterAlways(d) == [d EXCEPT !.saveInProgress = TRUE, !.saving = @ + 1]

\* saveToStorage up to the try block: the guard and saveInProgress = true.
EnterSave(d) ==
    IF d.saveInProgress
    THEN [d EXCEPT !.savePending = TRUE]
    ELSE [d EXCEPT !.saveInProgress = TRUE, !.saving = @ + 1]

saveToStorage(d) ==
    IF d.saveInProgress THEN EnterSave(d) ELSE Finally(WriteSection(EnterSave(d)))

(***************************************************************************)
(* History Manager.                                                        *)
(***************************************************************************)
\* history with the reference ref pushed and the entries after the cursor
\* kept.
PushedOnAll(d, ref) == Append(d.history, ref)

\* history.slice(0, historyIndex + 1) with the reference ref pushed.
Pushed(d, ref) == Append(Take(d.history, d.historyIndex + 1), ref)

\* saveStateToHistory without the cap.
Uncapped(d) == d

\* The cap with history.shift() and no historyIndex--.
ShiftOnly(d) ==
    IF Len(d.history) > MaxHistory THEN [d EXCEPT !.history = Tail(d.history)] ELSE d

\* The cap: history.shift() and historyIndex-- when the length exceeds it.
Capped(d) ==
    IF Len(d.history) > MaxHistory
    THEN [d EXCEPT !.history = Tail(d.history), !.historyIndex = d.historyIndex - 1]
    ELSE d

\* The module with the snapshot object ref pushed.
PushSnapshot(d, ref) ==
    Capped([d EXCEPT !.history = Pushed(d, ref), !.historyIndex = Len(Pushed(d, ref)) - 1])

\* saveStateToHistory pushing currentSession itself, not a copy of it.
saveStateByReference(d) == PushSnapshot(d, d.cur)

saveStateToHistory(d) ==
    PushSnapshot(Allocate(d, NewRef(d), DeepCopy(Cur(d))), NewRef(d))

CanUndo(d) == d.historyIndex > 0

undo(d) ==
    IF CanUndo(d)
    THEN AssignCur([d EXCEPT !.historyIndex = d.historyIndex - 1],
                   DeepCopy(d.heap[d.history[d.historyIndex]]))
    ELSE d

CanRedo(d) == d.historyIndex < Len(d.history) - 1

redo(d) ==
    IF CanRedo(d)
    THEN AssignCur([d EXCEPT !.historyIndex = d.historyIndex + 1],
                   DeepCopy(d.heap[d.history[d.historyIndex + 2]]))
    ELSE d

(***************************************************************************)
(* Normalisation of a loaded session.                                      *)
(***************************************************************************)
\* !item.qty: a stored item may lack its qty.
NoQty(item) == "qty" \notin DOMAIN item \/ item.qty = 0

\* The item with item.name = name and item.qty = qty assigned.
WithNameQty(item, name, qty) ==
    [f \in DOMAIN item \cup {"qty"} |->
        IF f = "qty" THEN qty ELSE IF f = "name" THEN name ELSE item[f]]

\* The body of the loop of normalizeItemQuantities from `parsed` on.
ItemWithParsed(item, parsed) ==
    IF parsed.qty > 1 THEN WithNameQty(item, parsed.name, parsed.qty)
    ELSE IF NoQty(item) THEN WithNameQty(item, item.name, 1)
    ELSE item

\* The body of the loop of normalizeItemQuantities.
normalizeItem(item) ==
    IF NoQty(item) \/ item.qty = 1 THEN ItemWithParsed(item, parseQuantity(item.name))
    ELSE item

normalizeItemQuantities(d) ==
    SetCur(d, [Cur(d) EXCEPT !.boxes =
        [i \in DOMAIN @ |->
            [@[i] EXCEPT !.data.items = [j \in DOMAIN @ |-> normalizeItem(@[j])]]]])

\* normalizedBoxes[normalizedKey] with the items of safeBoxData put before
\* the items it has.
MergedBoxInFront(old, safeBoxData) ==
    [items |-> safeBoxData.items \o old.items,
     completed |-> IF safeBoxData.completed \/ old.completed THEN TRUE ELSE old.completed,
     completedAt |-> IF (safeBoxData.completed \/ old.completed) /\ IsNull(old.completedAt)
                     THEN safeBoxData.completedAt
                     ELSE old.completedAt,
     secondaryLocation |-> IF ~Falsy(safeBoxData.secondaryLocation)
                              /\ Falsy(old.secondaryLocation)
                           THEN safeBoxData.secondaryLocation
                           ELSE old.secondaryLocation]

\* normalizedBoxes[normalizedKey] after the merge of safeBoxData into it.
MergedBox(old, safeBoxData) ==
    [items |-> old.items \o safeBoxData.items,
     completed |-> IF safeBoxData.completed \/ old.completed THEN TRUE ELSE old.completed,
     completedAt |-> IF (safeBoxData.completed \/ old.completed) /\ IsNull(old.completedAt)
                     THEN safeBoxData.completedAt
                     ELSE old.completedAt,
     secondaryLocation |-> IF ~Falsy(safeBoxData.secondaryLocation)
                              /\ Falsy(old.secondaryLocation)
                           THEN safeBoxData.secondaryLocation
                           ELSE old.secondaryLocation]

\* One turn of the loop of normalizeSessionBoxes from `safeBoxData` on.
MergeInto(normalizedBoxes, normalizedKey, safeBoxData) ==
    IF HasBox(normalizedBoxes, normalizedKey)
    THEN SetBox(normalizedBoxes, normalizedKey,
                MergedBox(BoxAt(normalizedBoxes, normalizedKey), safeBoxData))
    ELSE SetBox(normalizedBoxes, normalizedKey,
                [safeBoxData EXCEPT !.secondaryLocation = StrOrNull(@)])

\* One turn of the loop of normalizeSessionBoxes.
MergeBox(normalizedBoxes, boxKey, boxData) ==
    MergeInto(normalizedBoxes, KeyOf(normalizeBoxNumber(boxKey)), ensureBoxDataShape(boxData))

RECURSIVE MergeAll(_, _)
MergeAll(entries, normalizedBoxes) ==
    IF entries = <<>> THEN normalizedBoxes
    ELSE MergeAll(Tail(entries),
                  MergeBox(normalizedBoxes, Head(entries).key, Head(entries).data))

normalizeSessionBoxes(d) ==
    normalizeItemQuantities(
        SetCur(d, [Cur(d) EXCEPT !.boxes = MergeAll(Cur(d).boxes, <<>>)]))

\* The condition of the loop of markExistingBoxesAsCompleted.
Unmarked(boxData) == boxData.items # <<>> /\ ~boxData.completed

\* The body of the loop of markExistingBoxesAsCompleted.
MarkBox(boxData, now) ==
    IF Unmarked(boxData)
    THEN [boxData EXCEPT !.completed = TRUE, !.completedAt = IF IsNull(@) THEN now ELSE @]
    ELSE boxData

\* The loop of markExistingBoxesAsCompleted.
Marked(d) ==
    SetCur(d, [Cur(d) EXCEPT !.boxes =
        [i \in DOMAIN @ |-> [@[i] EXCEPT !.data = MarkBox(@, Some(d.clock))]]])

\* localStorage.setItem(migrationKey, 'true') in a store that takes it or
\* drops it.
FlagSet(d) == IF d.localFault = "ok" THEN [d EXCEPT !.migrated = TRUE] ELSE d

\* markExistingBoxesAsCompleted when the migration is not done.
MarkAll(d) ==
    IF \E i \in DOMAIN Cur(d).boxes : Unmarked(Cur(d).boxes[i].data)
    THEN saveToStorage(FlagSet(Marked(d)))
    ELSE FlagSet(d)

\* markExistingBoxesAsCompleted throws: the migration is not done and
\* localStorage.setItem throws.
MarkThrows(d) == ~d.migrated /\ d.localFault = "throws"

\* markExistingBoxesAsCompleted run whatever the migration flag says.
MarkEveryTime(d) == IF d.localFault = "throws" THEN Marked(d) ELSE MarkAll(d)

markExistingBoxesAsCompleted(d) ==
    IF d.migrated THEN d
    ELSE IF d.localFault = "throws" THEN Marked(d)
    ELSE MarkAll(d)

(***************************************************************************)
(* Persistence: startNewSession and loadSession.                           *)
(***************************************************************************)
startNewSession(d) ==
    saveToStorage(AssignCur(d, [id |-> Some(d.clock), startedAt |-> Some(d.clock),
                                boxes |-> <<>>]))

\* The loop of loadSession over ensureBoxDataShape.
Shaped(data) ==
    [data EXCEPT !.boxes = [i \in DOMAIN @ |-> [@[i] EXCEPT !.data = ensureBoxDataShape(@)]]]

\* loadSession from `currentSession = data` on.
Adopt(d, data) ==
    markExistingBoxesAsCompleted(
        saveToStorage(normalizeSessionBoxes(AssignCur(d, Shaped(data)))))

\* loadSession keeping the session it has when the loaded object has no
\* boxes.
LoadObjectOrKeep(d, data) == IF "boxes" \notin DOMAIN data THEN d ELSE Adopt(d, data)

\* What loadSession does with a loaded object (data && typeof data === 'object').
LoadObject(d, data) ==
    IF "boxes" \notin DOMAIN data
    THEN Adopt(d, [id |-> Null, startedAt |-> Some(d.clock), boxes |-> <<>>])
    ELSE Adopt(d, data)

\* window.electronAPI.loadData() is ipcRenderer.invoke(...): a Promise, an
\* object without a boxes property.
PromiseObject == [promise |-> "load-data"]

\* The text loadSession finds when it looks in the backup store first.
StoredBackupFirst(d) == IF IsNull(d.backup) THEN d.primary ELSE d.backup

\* The text loadSession finds: the primary store's or, that one being
\* empty, the backup store's.
Stored(d) == IF IsNull(d.primary) THEN d.backup ELSE d.primary

\* localStorage.setItem('boxAuditSession', stored) for a text found in the
\* backup store only throws.
PromoteThrows(d) == IsNull(d.primary) /\ ~IsNull(d.backup) /\ d.localFault = "throws"

\* localStorage.setItem('boxAuditSession', stored) for a text found in the
\* backup store only.
Promote(d) ==
    IF IsNull(d.primary) /\ ~IsNull(d.backup) THEN SetPrimary(d, Val(d.backup)) ELSE d

\* The catch block of loadSession.  The result is the state and the value
\* returned.
LoadCaught(d) ==
    IF ~IsNull(d.backup) /\ JSONparseOk(Val(d.backup))
    THEN [d |-> AssignCur(d, JSONparse(Val(d.backup))), ok |-> TRUE]
    ELSE [d |-> d, ok |-> FALSE]

\* loadSession with a loaded object: it returns true, or the exception of
\* markExistingBoxesAsCompleted takes it to the catch block.
LoadAdopted(d, data) ==
    IF MarkThrows(d) THEN LoadCaught(LoadObject(d, data))
    ELSE [d |-> LoadObject(d, data), ok |-> TRUE]

\* loadSession from `if (stored)` on.
LoadText(d, stored) ==
    IF IsNull(stored) THEN [d |-> startNewSession(d), ok |-> FALSE]
    ELSE IF JSONparseOk(Val(stored))
    THEN LoadAdopted(d, JSONparse(Val(stored)))
    ELSE LoadCaught(d)

\* loadSession from the stores.
LoadStored(d) ==
    IF PromoteThrows(d) THEN LoadCaught(d) ELSE LoadText(Promote(d), Stored(d))

loadSession(d) ==
    IF d.electron THEN LoadAdopted(d, PromiseObject)
    ELSE LoadStored(d)

(***************************************************************************)
(* The application script.  Its state adds to d:                           *)
(*   currentBox     the active location (null or a key)                    *)
(*   editingItemId  null or {boxNumber, itemId}                            *)
(*   started        init has run (DOMContentLoaded fired)                  *)
(*   contextTags    activeContext.tags of the voice module                 *)
(* The handlers read and write the session through                         *)
(* window.BoxData.currentSession, which is Win(a), while the functions of  *)
(* data.js they call work on Cur(a).  A handler that throws a TypeError    *)
(* stops there: its result is the state at the throw.                      *)
(***************************************************************************)
\* window.BoxData.currentSession.boxes[k] is defined
HasWinBox(a, k) == HasBox(Win(a).boxes, k)

\* window.BoxData.currentSession.boxes[k]
WinBox(a, k) == BoxAt(Win(a).boxes, k)

\* window.BoxData.currentSession.boxes[k] = data
SetWinBox(a, k, data) == SetWin(a, [Win(a) EXCEPT !.boxes = SetBox(@, k, data)])

\* window.BoxData.currentSession.boxes[k].items = items
SetWinItems(a, k, items) == SetWinBox(a, k, [WinBox(a, k) EXCEPT !.items = items])

\* The tail of the mutating handlers: saveStateToHistory(); updateDisplay();
\* saveToStorage().
Commit(a) == saveToStorage(saveStateToHistory(a))

\* switchBox from `currentBox = normalized` on.
SwitchTo(a, normalized) ==
    IF ~HasWinBox(a, normalized)
    THEN saveToStorage(ensureBoxExists([a EXCEPT !.currentBox = Some(normalized)], normalized))
    ELSE [a EXCEPT !.currentBox = Some(normalized)]

switchBox(a, boxNumber) ==
    IF Falsy(normalizeBoxNumber(boxNumber)) THEN a
    ELSE SwitchTo(a, Val(normalizeBoxNumber(boxNumber)))

HasCurrentBoxRecord(a) == ~Falsy(a.currentBox) /\ HasWinBox(a, Val(a.currentBox))

setSecondaryLocation(a, value) ==
    IF ~HasCurrentBoxRecord(a) THEN a
    ELSE Commit(SetWinBox(a, Val(a.currentBox),
                    [WinBox(a, Val(a.currentBox)) EXCEPT !.secondaryLocation = StrOrNull(value)]))

\* saveSecondaryLocation storing the text of the input as it is.
SaveShelfUnchecked(a, rawValue) ==
    setSecondaryLocation(a, IF rawValue = <<>> THEN Null ELSE Some(toUpperCase(rawValue)))

ShelfMessage == "Secondary location must be a SHELF (e.g., SHELF 2C)."

\* saveSecondaryLocation from `rawValue` on; normalizeShelfLocation('') is
\* null.
SaveShelf(a, rawValue) ==
    IF rawValue # <<>> /\ IsNull(normalizeShelfLocation(rawValue))
    THEN [a EXCEPT !.saveError = Some(ShelfMessage)]
    ELSE setSecondaryLocation(a, normalizeShelfLocation(rawValue))

saveSecondaryLocation(a, inputValue) ==
    IF ~HasCurrentBoxRecord(a) THEN a ELSE SaveShelf(a, trim(inputValue))

\* toggleBoxComplete from `normalizedBox` on.
ToggleAt(a, normalizedBox) ==
    IF ~HasWinBox(a, normalizedBox) THEN a
    ELSE Commit(SetWinBox(a, normalizedBox,
                   [WinBox(a, normalizedBox) EXCEPT
                       !.completed = ~@,
                       !.completedAt = IF WinBox(a, normalizedBox).completed THEN Null
                                       ELSE Some(a.clock)]))

toggleBoxComplete(a, boxNumber) == ToggleAt(a, KeyOf(normalizeBoxNumber(boxNumber)))

SameName(n1, n2) == trim(toLowerCase(n1)) = trim(toLowerCase(n2))

\* The position, from 1, of the first item named like name; 0 when there
\* is none.
IndexOfName(items, name) ==
    IF \E i \in DOMAIN items : SameName(items[i].name, name)
    THEN CHOOSE i \in DOMAIN items :
            /\ SameName(items[i].name, name)
            /\ \A j \in 1..(i-1) : ~SameName(items[j].name, name)
    ELSE 0

\* items.findIndex(item => item.id === itemId), from 1; 0 when there is none.
IndexOfId(items, itemId) ==
    IF \E i \in DOMAIN items : items[i].id = itemId
    THEN CHOOSE i \in DOMAIN items :
            items[i].id = itemId /\ \A j \in 1..(i-1) : items[j].id # itemId
    ELSE 0

\* addItem with a merge that adds the qty and leaves the item where it is.
MergeItemInPlace(currentItems, idx, qty, now) ==
    [currentItems EXCEPT ![idx] = [@ EXCEPT !.qty = (IF @ = 0 THEN 1 ELSE @) + qty,
                                            !.addedAt = now]]

\* The items of addItem after the merge into the item at idx.
MergeItem(currentItems, idx, qty, now) ==
    Append(RemoveAt(currentItems, idx),
           [currentItems[idx] EXCEPT !.qty = (IF @ = 0 THEN 1 ELSE @) + qty,
                                     !.addedAt = now])

\* The item addItem creates.
NewItem(parsed, now) ==
    [id |-> now, name |-> parsed.name, qty |-> parsed.qty, addedAt |-> now,
     isDuplicate |-> FALSE, tags |-> <<>>]

\* addItem from the search for existingItem on; idx is its position.
AddAt(a, k, parsed, idx) ==
    Commit(SetWinItems(a, k,
              IF idx # 0 THEN MergeItem(WinBox(a, k).items, idx, parsed.qty, a.clock)
              ELSE Append(WinBox(a, k).items,
                          [NewItem(parsed, a.clock) EXCEPT !.tags = a.contextTags])))

\* addItem from `parsed` on.  When window.BoxData.currentSession.boxes[k]
\* is undefined, reading its items throws.
AddParsed(a, k, parsed) ==
    IF ~HasWinBox(a, k) THEN a
    ELSE AddAt(a, k, parsed, IndexOfName(WinBox(a, k).items, parsed.name))

addItem(a, itemName) ==
    IF Falsy(a.currentBox) THEN a
    ELSE AddParsed(ensureBoxExists(a, Val(a.currentBox)), Val(a.currentBox),
                   parseQuantity(itemName))

\* deleteItem with the record of an emptied location always deleted.
DropIfEmpty(a, normalized) ==
    IF WinBox(a, KeyOf(normalized)).items = <<>>
    THEN SetWin(a, [Win(a) EXCEPT !.boxes = DeleteBox(@, KeyOf(normalized))])
    ELSE a

\* deleteItem after items.splice(index, 1).
DropIfIdle(a, normalized) ==
    IF WinBox(a, KeyOf(normalized)).items = <<>> /\ normalized # a.currentBox
    THEN SetWin(a, [Win(a) EXCEPT !.boxes = DeleteBox(@, KeyOf(normalized))])
    ELSE a

\* deleteItem from `index` on.
DeleteIndex(a, normalized, index) ==
    IF index = 0 THEN a
    ELSE Commit(DropIfIdle(
                   SetWinItems(a, KeyOf(normalized),
                               RemoveAt(WinBox(a, KeyOf(normalized)).items, index)),
                   normalized))

\* deleteItem from `normalizedBox` on.
DeleteAt(a, normalized, itemId) ==
    IF ~HasWinBox(a, KeyOf(normalized)) THEN a
    ELSE DeleteIndex(a, normalized, IndexOfId(WinBox(a, KeyOf(normalized)).items, itemId))

deleteItem(a, boxNumber, itemId) == DeleteAt(a, normalizeBoxNumber(boxNumber), itemId)

\* The assignment of startEditItem; what follows it reads and draws.
startEditItem(a, boxNumber, itemId) ==
    [a EXCEPT !.editingItemId =
        Some([boxNumber |-> normalizeBoxNumber(boxNumber), itemId |-> itemId])]

\* saveEditedItem from `parsed` on.
EditAt(a, boxNumber, idx, parsed) ==
    IF idx = 0 THEN a
    ELSE Commit(SetWinItems(a, boxNumber,
                   [WinBox(a, boxNumber).items EXCEPT ![idx] =
                       [@ EXCEPT !.name = parsed.name, !.qty = parsed.qty,
                                 !.isDuplicate = FALSE]]))

\* saveEditedItem from the destructuring of editingItemId on.  When
\* boxes[boxNumber] is undefined, reading its items throws.
EditIn(a, boxNumber, itemId, newName) ==
    IF ~HasWinBox(a, boxNumber) THEN a
    ELSE [EditAt(a, boxNumber, IndexOfId(WinBox(a, boxNumber).items, itemId),
                 parseQuantity(trim(newName)))
          EXCEPT !.editingItemId = Null]

saveEditedItem(a, newName) ==
    IF IsNull(a.editingItemId) THEN a
    ELSE EditIn(a, KeyOf(Val(a.editingItemId).boxNumber), Val(a.editingItemId).itemId,
                newName)

\* startEditItem throws a TypeError: boxes[normalizedBox] is undefined when
\* its items are read.
StartEditThrows(a, boxNumber) == ~HasWinBox(a, KeyOf(normalizeBoxNumber(boxNumber)))

\* saveEditedItem throws a TypeError: boxes[boxNumber] is undefined when
\* its items are read.
SaveEditThrows(a) ==
    ~IsNull(a.editingItemId) /\ ~HasWinBox(a, KeyOf(Val(a.editingItemId).boxNumber))

cancelEdit(a) == [a EXCEPT !.editingItemId = Null]

\* handleGlobalKeyDown, Ctrl+Z
undoKey(a) == IF CanUndo(a) THEN saveToStorage(undo(a)) ELSE a

\* handleGlobalKeyDown, Ctrl+Shift+Z
redoKey(a) == IF CanRedo(a) THEN saveToStorage(redo(a)) ELSE a

\* handleInputKeyDown, Enter, with a location read from the input.
EnterLocation(a, locationInput) ==
    IF ~Falsy(locationInput.secondary)
    THEN setSecondaryLocation(switchBox(a, locationInput.primary),
                              locationInput.secondary)
    ELSE switchBox(a, locationInput.primary)

\* handleInputKeyDown, Enter, from `value` on.
EnterValue(a, value) ==
    IF value = <<>> THEN a
    ELSE IF ~IsNull(a.editingItemId) THEN saveEditedItem(a, value)
    ELSE IF ~IsNull(parseLocationInput(value))
    THEN EnterLocation(a, Val(parseLocationInput(value)))
    ELSE IF ~Falsy(a.currentBox) THEN addItem(a, value)
    ELSE IF ~IsNull(parseLocationInput(toUpperCase(value)))
    THEN EnterLocation(a, Val(parseLocationInput(toUpperCase(value))))
    ELSE a

\* handleInputKeyDown for the Enter key with inputValue in the item input.
handleInputKeyDown(a, inputValue) == EnterValue(a, trim(inputValue))

(***************************************************************************)
(* The voice module: processVoiceCommand.  raw is in lower case.           *)
(***************************************************************************)
\* s.includes(p)
Includes(s, p) == \E i \in 0..(Len(s) - Len(p)) : SubSeq(s, i + 1, i + Len(p)) = p

\* The run of word characters at the head of s.
WordAt(s) == Take(s, PrefixLen(s, IsWordChar))

\* The group (\w+) of /\s*(?:number\s*)?(\w+)/ at the head of r, <<>> for
\* no match.
NumberedWord(r) ==
    IF /\ StartsWith(trimStart(r), << "n","u","m","b","e","r" >>)
       /\ WordAt(trimStart(Drop(trimStart(r), 6))) # <<>>
    THEN WordAt(trimStart(Drop(trimStart(r), 6)))
    ELSE WordAt(trimStart(r))

\* The match of /(box|shelf|s)\s*(?:number\s*)?(\w+)/ at the head of t:
\* null or the two groups.
TypedWord(t) ==
    IF StartsWith(t, << "b","o","x" >>) /\ NumberedWord(Drop(t, 3)) # <<>>
    THEN Some([type |-> << "b","o","x" >>, val |-> NumberedWord(Drop(t, 3))])
    ELSE IF StartsWith(t, << "s","h","e","l","f" >>) /\ NumberedWord(Drop(t, 5)) # <<>>
    THEN Some([type |-> << "s","h","e","l","f" >>, val |-> NumberedWord(Drop(t, 5))])
    ELSE IF StartsWith(t, << "s" >>) /\ NumberedWord(Drop(t, 1)) # <<>>
    THEN Some([type |-> << "s" >>, val |-> NumberedWord(Drop(t, 1))])
    ELSE Null

\* The match at the head of t of pattern(_) after the first of the prefixes
\* that leads to one, or after none.
AfterPrefix(t, prefixes, pattern(_)) ==
    IF \E i \in DOMAIN prefixes :
          StartsWith(t, prefixes[i]) /\ ~IsNull(pattern(Drop(t, Len(prefixes[i]))))
    THEN pattern(Drop(t, Len(prefixes[
             CHOOSE i \in DOMAIN prefixes :
                /\ StartsWith(t, prefixes[i]) /\ ~IsNull(pattern(Drop(t, Len(prefixes[i]))))
                /\ \A j \in 1..(i-1) :
                      ~(StartsWith(t, prefixes[j])
                        /\ ~IsNull(pattern(Drop(t, Len(prefixes[j])))))])))
    ELSE pattern(t)

\* The leftmost match in s of a pattern whose match at the head of a text
\* is atHead(_): null when there is none.
Leftmost(s, atHead(_)) ==
    IF \A i \in DOMAIN s : IsNull(atHead(Drop(s, i - 1))) THEN Null
    ELSE atHead(Drop(s, (CHOOSE i \in DOMAIN s :
                            /\ ~IsNull(atHead(Drop(s, i - 1)))
                            /\ \A j \in 1..(i-1) : IsNull(atHead(Drop(s, j - 1)))) - 1))

NavigationPrefixes ==
    << << "g","o"," ","t","o"," " >>, << "o","p","e","n"," " >>,
       << "s","w","i","t","c","h"," ","t","o"," " >> >>

\* /(?:go to |open |switch to )?(box|shelf|s)\s*(?:number\s*)?(\w+)/ at the
\* head of t.
LocationAtHead(t) == AfterPrefix(t, NavigationPrefixes, TypedWord)

\* raw.match(/(?:go to |open |switch to )?(box|shelf|s)\s*(?:number\s*)?(\w+)/i)
locationMatch(raw) == Leftmost(raw, LocationAtHead)

\* The group (\w+) of /\s+(\w+)/ at the head of r, null for no match.
SpacedWord(r) ==
    IF PrefixLen(r, IsSpace) >= 1 /\ WordAt(trimStart(r)) # <<>>
    THEN Some(WordAt(trimStart(r)))
    ELSE Null

\* /(?:shelf|s)\s+(\w+)/ at the head of t: null or the group.
ShelfWordAt(t) ==
    IF StartsWith(t, << "s","h","e","l","f" >>) /\ ~IsNull(SpacedWord(Drop(t, 5)))
    THEN SpacedWord(Drop(t, 5))
    ELSE IF StartsWith(t, << "s" >>) THEN SpacedWord(Drop(t, 1))
    ELSE Null

SecondaryPrefixes ==
    << << "s","e","t"," " >>, << "l","o","c","a","t","e","d"," ","o","n"," " >>,
       << "s","e","c","o","n","d","a","r","y"," ","l","o","c","a","t","i","o","n"," " >>,
       << "s","e","c","o","n","d","a","r","y"," " >> >>

\* /(?:set |located on |secondary(?: location)? )?(?:shelf|s)\s+(\w+)/ at
\* the head of t.
SecondaryAtHead(t) == AfterPrefix(t, SecondaryPrefixes, ShelfWordAt)

\* raw.match(/(?:set |located on |secondary(?: location)? )?(?:shelf|s)\s+(\w+)/i)
secondaryMatch(raw) == Leftmost(raw, SecondaryAtHead)

isExplicitSecondary(raw) ==
    \/ Includes(raw, << "s","e","t" >>)
    \/ Includes(raw, << "l","o","c","a","t","e","d" >>)
    \/ Includes(raw, << "s","e","c","o","n","d","a","r","y" >>)

\* The condition of the navigation command.
IsNavigation(raw) ==
    /\ ~IsNull(locationMatch(raw))
    /\ ~Includes(raw, << "t","a","g" >>)
    /\ ~Includes(raw, << "c","o","n","t","e","x","t" >>)
    /\ ~Includes(raw, << "s","e","c","o","n","d","a","r","y" >>)
    /\ ~Includes(raw, << "l","o","c","a","t","e","d"," ","o","n" >>)

\* window.switchBox(`${type} ${val}`)
Navigate(a, m) ==
    switchBox(a, (IF Head(m.type) = "s" THEN ShelfWord ELSE BoxWord)
                 \o << " " >> \o toUpperCase(m.val))

\* The secondary command: the input takes `SHELF ${val}` and its blur
\* listener, added by init, runs.
SetSecondary(a, val) ==
    IF a.started THEN saveSecondaryLocation(a, ShelfWord \o << " " >> \o toUpperCase(val))
    ELSE a

IsClear(raw) ==
    \/ Includes(raw, << "c","l","e","a","r"," ","c","o","n","t","e","x","t" >>)
    \/ Includes(raw, << "c","l","e","a","r"," ","t","a","g","s" >>)
    \/ Includes(raw, << "s","t","o","p"," ","t","a","g","g","i","n","g" >>)

IsUndo(raw) ==
    raw \in { << "u","n","d","o" >>, << "c","o","r","r","e","c","t","i","o","n" >>,
              << "n","o" >>, << "b","a","c","k" >> }

\* window.BoxData.undo() of the voice command; what follows it redraws.
voiceUndo(a) == IF CanUndo(a) THEN undo(a) ELSE a

TagWords ==
    << << "t","a","g" >>, << "c","o","n","t","e","x","t" >>,
       << "a","d","d"," ","t","a","g" >>,
       << "s","e","t"," ","c","o","n","t","e","x","t" >> >>

RECURSIVE TagTextAt(_, _)
\* The group (.+) of /<word>\s+(.+)/ at the head of t for the first of the
\* words that gives a match; <<>> for no match.
TagTextAt(t, words) ==
    IF words = <<>> THEN Null
    ELSE IF /\ StartsWith(t, Head(words))
            /\ PrefixLen(Drop(t, Len(Head(words))), IsSpace) >= 1
            /\ trimStart(Drop(t, Len(Head(words)))) # <<>>
    THEN Some(trimStart(Drop(t, Len(Head(words)))))
    ELSE TagTextAt(t, Tail(words))

TagAtHead(t) == TagTextAt(t, TagWords)

\* raw.match(/(?:tag|context|add tag|set context)\s+(.+)/i), its group.
tagMatch(raw) == Leftmost(raw, TagAtHead)

\* content.replace(/^(as|to|is)\s+/, '')
WithoutFiller(content) ==
    IF /\ \E w \in { << "a","s" >>, << "t","o" >>, << "i","s" >> } : StartsWith(content, w)
       /\ PrefixLen(Drop(content, 2), IsSpace) >= 1
    THEN trimStart(Drop(content, 2))
    ELSE content

CleanedWords ==
    << << "t","a","g" >>, << "a","d","d" >>, << "s","e","t" >>,
       << "c","o","n","t","e","x","t" >> >>

\* The length of the match of /tag|add|set|context/i at the head of t.
CleanedLen(t) ==
    IF \E i \in DOMAIN CleanedWords : StartsWith(toLowerCase(t), CleanedWords[i])
    THEN Len(CleanedWords[CHOOSE i \in DOMAIN CleanedWords :
                              StartsWith(toLowerCase(t), CleanedWords[i])])
    ELSE 0

RECURSIVE withoutWords(_)
\* text.replace(/tag|add|set|context/gi, '')
withoutWords(text) ==
    IF text = <<>> THEN <<>>
    ELSE IF CleanedLen(text) > 0 THEN withoutWords(Drop(text, CleanedLen(text)))
    ELSE << Head(text) >> \o withoutWords(Tail(text))

\* clean.charAt(0).toUpperCase() + clean.slice(1)
Capitalized(clean) ==
    IF clean = <<>> THEN <<>> ELSE << ToUpperChar(Head(clean)) >> \o Tail(clean)

\* addContextTag from the test on `clean` on.
AddClean(a, clean) ==
    IF clean \in Range(a.contextTags) THEN a
    ELSE [a EXCEPT !.contextTags = Append(@, clean)]

addContextTag(a, text) == AddClean(a, Capitalized(trim(withoutWords(text))))

\* The tag a keyword of the last lines of processVoiceCommand adds.
KeywordTag(a, raw, keyword) ==
    IF Includes(raw, keyword) THEN addContextTag(a, Capitalized(keyword)) ELSE a

\* processVoiceCommand from the clear command on.
VoiceContext(a, raw) ==
    IF IsClear(raw) THEN [a EXCEPT !.contextTags = <<>>]
    ELSE IF IsUndo(raw) THEN voiceUndo(a)
    ELSE IF ~IsNull(tagMatch(raw)) THEN addContextTag(a, WithoutFiller(Val(tagMatch(raw))))
    ELSE KeywordTag(KeywordTag(KeywordTag(a, raw, << "f","r","a","g","i","l","e" >>),
                               raw, << "h","e","a","v","y" >>),
                    raw, << "p","h","o","t","o","s" >>)

\* processVoiceCommand from `raw` on.
VoiceRaw(a, raw) ==
    IF IsNavigation(raw) THEN Navigate(a, Val(locationMatch(raw)))
    ELSE IF isExplicitSecondary(raw) /\ ~IsNull(secondaryMatch(raw))
    THEN SetSecondary(a, Val(secondaryMatch(raw)))
    ELSE VoiceContext(a, raw)

processVoiceCommand(a, transcript) == VoiceRaw(a, trim(toLowerCase(transcript)))

\* init from "Restore currentBox" on.
RestoreBox(a) ==
    [a EXCEPT !.currentBox = IF Win(a).boxes # <<>> THEN Some(Last(BoxKeys(Win(a).boxes)))
                             ELSE @,
              !.started = TRUE]

\* init after loadSession().
StartLoaded(a) == RestoreBox(IF IsNull(Win(a).id) THEN startNewSession(a) ELSE a)

init(a) == StartLoaded(loadSession(a).d)

(***************************************************************************)
(* Object ids carry no meaning: after each handler the unreachable objects *)
(* are dropped and the others renumbered in the order window.BoxData,      *)
(* currentSession, history[0], history[1], ...                             *)
(***************************************************************************)
Roots(a) == << WinRef, a.cur >> \o a.history

FirstPos(s, r) == CHOOSE i \in DOMAIN s : s[i] = r /\ \A j \in 1..(i-1) : s[j] # r

NewId(s, r) == Cardinality({ s[j] : j \in 1..FirstPos(s, r) }) - 1

Renumbered(a, R) ==
    [a EXCEPT
        !.heap = [n \in { NewId(R, r) : r \in Range(R) } |->
                     a.heap[CHOOSE r \in Range(R) : NewId(R, r) = n]],
        !.cur = NewId(R, a.cur),
        !.history = [i \in DOMAIN a.history |-> NewId(R, a.history[i])]]

Canon(a) == Renumbered(a, Roots(a))

(***************************************************************************)
(* Inputs.                                                                 *)
(***************************************************************************)
Str42 == << "4","2" >>

StrBox42 == << "b","o","x","4","2" >>

StrS2c == << "s","2","c" >>

StrBlank == << " " >>

StrPen == << "p","e","n" >>

StrPenX2 == << "P","e","n"," ","x","2" >>

StrCup == << "c","u","p" >>

StrAttic == << "a","t","t","i","c" >>

\* What is typed or spoken as a location.
BoxInputs == { Str42, StrS2c, StrBlank }

\* What is typed as an item.
ItemInputs == { StrPen, StrPenX2, StrCup }

\* What is typed into the secondary-location field.
ShelfInputs == { <<>>, StrS2c, StrAttic }

\* A session as an earlier build stored it: raw keys, records without the
\* completion fields, an item without qty.
LegacySession ==
    [id |-> Some(0), startedAt |-> Some(0),
     boxes |-> << [key |-> StrBox42,
                   data |-> [items |-> << [id |-> 0, name |-> StrPenX2, addedAt |-> 0,
                                           isDuplicate |-> FALSE, tags |-> <<>>] >>]],
                  [key |-> Str42,
                   data |-> [items |-> << [id |-> 0, name |-> StrPen, qty |-> 1,
                                           addedAt |-> 0, isDuplicate |-> FALSE,
                                           tags |-> <<>>] >>,
                             completed |-> FALSE, completedAt |-> Null,
                             secondaryLocation |-> Null]] >>]

\* A stored session with a record marked completed that carries no
\* completedAt.
UndatedSession ==
    [id |-> Some(0), startedAt |-> Some(0),
     boxes |-> << [key |-> StrBox42, data |-> [items |-> <<>>, completed |-> TRUE]] >>]

\* A stored session whose keys collide after normalisation, with a key of
\* white space among them; the items were stored before the page was loaded.
OddKeysSession ==
    [id |-> Some(0), startedAt |-> Some(0),
     boxes |-> << [key |-> StrBox42,
                   data |-> [items |-> << [id |-> -3, name |-> StrPenX2, addedAt |-> -3,
                                           isDuplicate |-> FALSE, tags |-> <<>>],
                                          [id |-> -2, name |-> StrCup, qty |-> 1,
                                           addedAt |-> -2, isDuplicate |-> FALSE,
                                           tags |-> <<>>] >>]],
                  [key |-> StrBlank, data |-> [items |-> <<>>]],
                  [key |-> Str42,
                   data |-> [items |-> << [id |-> -1, name |-> StrPen, qty |-> 1,
                                           addedAt |-> -1, isDuplicate |-> FALSE,
                                           tags |-> <<>>] >>,
                             completed |-> FALSE, completedAt |-> Null,
                             secondaryLocation |-> Null]] >>]

\* A stored session with two completed records of one location, the record
\* iterated first completed later than the other.
DatedSession ==
    [id |-> Some(0), startedAt |-> Some(0),
     boxes |-> << [key |-> StrBox42,
                   data |-> [items |-> <<>>, completed |-> TRUE, completedAt |-> Some(-2),
                             secondaryLocation |-> Some(<< "S","H","E","L","F"," ","2","C" >>)]],
                  [key |-> Str42,
                   data |-> [items |-> <<>>, completed |-> TRUE, completedAt |-> Some(-1),
                             secondaryLocation |-> Null]] >>]

\* The stores of a browser that never ran the application.
FreshStores == [electron |-> FALSE, primary |-> Null, backup |-> Null]

\* The stores as a start may find them.
Startups ==
    { FreshStores,
      [electron |-> FALSE, primary |-> Some(JSONstringify(LegacySession)), backup |-> Null],
      [electron |-> FALSE, primary |-> Null, backup |-> Some(JSONstringify(LegacySession))],
      [electron |-> FALSE, primary |-> Some(GarbageText),
       backup |-> Some(JSONstringify(LegacySession))],
      [electron |-> FALSE, primary |-> Some(JSONstringify([id |-> Some(0)])), backup |-> Null],
      [electron |-> FALSE, primary |-> Some(JSONstringify(UndatedSession)), backup |-> Null],
      [electron |-> FALSE, primary |-> Some(JSONstringify(OddKeysSession)), backup |-> Null],
      [electron |-> FALSE, primary |-> Some(JSONstringify(DatedSession)), backup |-> Null],
      [electron |-> TRUE, primary |-> Null, backup |-> Null] }

(***************************************************************************)
(* The state machine.                                                      *)
(***************************************************************************)
VARIABLES heap, cur, history, historyIndex, primary, backup, migrated, electron,
          clock, currentBox, editingItemId, started,
          file, fileFault, localFault, sessionFault, saveInProgress, savePending,
          saving, timers, saveError, contextTags

vars == << heap, cur, history, historyIndex, primary, backup, migrated, electron,
           clock, currentBox, editingItemId, started,
           file, fileFault, localFault, sessionFault, saveInProgress, savePending,
           saving, timers, saveError, contextTags >>

\* The state as a record.
St ==
    [heap |-> heap, cur |-> cur, history |-> history, historyIndex |-> historyIndex,
     primary |-> primary, backup |-> backup, migrated |-> migrated,
     electron |-> electron, clock |-> clock, currentBox |-> currentBox,
     editingItemId |-> editingItemId, started |-> started,
     file |-> file, fileFault |-> fileFault, localFault |-> localFault,
     sessionFault |-> sessionFault,
     saveInProgress |-> saveInProgress, savePending |-> savePending,
     saving |-> saving, timers |-> timers, saveError |-> saveError,
     contextTags |-> contextTags]

\* The next state is a, the result of a handler run on Tick(St).  An event
\* that changes nothing is no step, and no event comes after MaxClock.
Becomes(a) ==
    /\ clock < MaxClock
    /\ a # Tick(St)
    /\ \E c \in { Canon(a) } :
        /\ heap' = c.heap
        /\ cur' = c.cur
        /\ history' = c.history
        /\ historyIndex' = c.historyIndex
        /\ primary' = c.primary
        /\ backup' = c.backup
        /\ migrated' = c.migrated
        /\ electron' = c.electron
        /\ clock' = c.clock
        /\ currentBox' = c.currentBox
        /\ editingItemId' = c.editingItemId
        /\ started' = c.started
        /\ file' = c.file
        /\ fileFault' = c.fileFault
        /\ localFault' = c.localFault
        /\ sessionFault' = c.sessionFault
        /\ saveInProgress' = c.saveInProgress
        /\ savePending' = c.savePending
        /\ saving' = c.saving
        /\ timers' = c.timers
        /\ saveError' = c.saveError
        /\ contextTags' = c.contextTags

\* Stores that work.
NoFaults == [fileFault |-> "ok", localFault |-> "ok", sessionFault |-> "ok"]

\* data.js and the application script have been evaluated, with the stores
\* as s gives them and failing as f says.
EvaluatedWith(s, f) ==
    /\ heap = [r \in {WinRef} |-> EmptySession]
    /\ cur = WinRef
    /\ history = <<>>
    /\ historyIndex = -1
    /\ electron = s.electron
    /\ primary = s.primary
    /\ backup = s.backup
    /\ migrated = FALSE
    /\ clock = 0
    /\ currentBox = Null
    /\ editingItemId = Null
    /\ started = FALSE
    /\ file = Null
    /\ fileFault = f.fileFault
    /\ localFault = f.localFault
    /\ sessionFault = f.sessionFault
    /\ saveInProgress = FALSE
    /\ savePending = FALSE
    /\ saving = 0
    /\ timers = 0
    /\ saveError = Null
    /\ contextTags = <<>>

\* The same with stores that work.
Evaluated(s) == EvaluatedWith(s, NoFaults)

Init == Evaluated(FreshStores)

Startup == ~started /\ Becomes(init(Tick(St)))

SwitchBox == \E b \in BoxInputs : Becomes(switchBox(Tick(St), b))

SaveSecondaryLocation == \E v \in ShelfInputs : Becomes(saveSecondaryLocation(Tick(St), v))

ToggleBoxComplete == \E b \in BoxInputs : Becomes(toggleBoxComplete(Tick(St), b))

AddItem == \E n \in ItemInputs : Becomes(addItem(Tick(St), n))

\* The ids of the items of the session window.BoxData.currentSession, and
\* one that no item has yet.
ItemIdsOf(boxData) == { boxData.items[i].id : i \in DOMAIN boxData.items }

KnownIds ==
    UNION { ItemIdsOf(Win(St).boxes[b].data) : b \in DOMAIN Win(St).boxes } \cup { clock + 1 }

DeleteItem == \E b \in BoxInputs, i \in KnownIds : Becomes(deleteItem(Tick(St), b, i))

\* The Edit buttons updateDisplay draws: one for each item of the active
\* location, calling startEditItem(currentBox, item.id).
ListedIds ==
    IF HasCurrentBoxRecord(St) THEN ItemIdsOf(WinBox(St, Val(currentBox))) ELSE {}

StartEditItem == \E i \in ListedIds : Becomes(startEditItem(Tick(St), Val(currentBox), i))

SaveEditedItem == \E n \in ItemInputs : Becomes(saveEditedItem(Tick(St), n))

CancelEdit == Becomes(cancelEdit(Tick(St)))

Undo == Becomes(undoKey(Tick(St)))

Redo == Becomes(redoKey(Tick(St)))

Next ==
    \/ Startup
    \/ SwitchBox
    \/ SaveSecondaryLocation
    \/ ToggleBoxComplete
    \/ AddItem
    \/ DeleteItem
    \/ StartEditItem
    \/ SaveEditedItem
    \/ CancelEdit
    \/ Undo
    \/ Redo

Spec == Init /\ [][Next]_vars

(***************************************************************************)
(* The same with the stores in any of the conditions of Startups, and with *)
(* window.BoxData.loadSession called on its own.                           *)
(***************************************************************************)
LoadInit == \E s \in Startups : Evaluated(s)

LoadSession == Becomes(loadSession(Tick(St)).d)

LoadNext == Next \/ LoadSession

LoadSpec == LoadInit /\ [][LoadNext]_vars

(***************************************************************************)
(* The input layer: the Enter key in the item input and the voice          *)
(* commands, whose listeners exist once init has run, beside the handlers  *)
(* of Next.                                                                *)
(***************************************************************************)
Str42S2c == << "4","2"," ","s","2","c" >>

Str42Attic == << "4","2"," ","a","t","t","i","c" >>

\* What the user types before Enter.
EnterInputs == { Str42, Str42S2c, StrPen, Str42Attic }

SayUndo == << "U","n","d","o" >>

SayBox42 == << "b","o","x"," ","4","2" >>

SayLocatedOnShelf4a == << "l","o","c","a","t","e","d"," ","o","n"," ","s","h","e","l","f"," ","4","a" >>

SaySecondaryShelfB == << "s","e","c","o","n","d","a","r","y"," ","s","h","e","l","f"," ","b" >>

SayTagFragile == << "t","a","g"," ","f","r","a","g","i","l","e" >>

SayClearTags == << "c","l","e","a","r"," ","t","a","g","s" >>

\* What the speech recognition hears.
Transcripts ==
    { SayUndo, SayBox42, SayLocatedOnShelf4a, SaySecondaryShelfB, SayTagFragile,
      SayClearTags }

EnterKey == started /\ \E v \in EnterInputs : Becomes(handleInputKeyDown(Tick(St), v))

VoiceCommand == started /\ \E t \in Transcripts : Becomes(processVoiceCommand(Tick(St), t))

InputNext == Next \/ EnterKey \/ VoiceCommand

InputSpec == Init /\ [][InputNext]_vars

(***************************************************************************)
(* The save in steps, with stores that can fail.  A call of saveToStorage  *)
(* (window.BoxData.saveToStorage, autoSave on its interval, beforeunload,  *)
(* a follow-up timer) enters the function; until its try block and its     *)
(* finally block have run, a further call can only come from inside the    *)
(* body, and finds saveInProgress set.                                     *)
(***************************************************************************)
Faults ==
    { [fileFault |-> w, localFault |-> l, sessionFault |-> s] :
        w \in {"ok", "fails"}, l \in {"ok", "throws", "drops"}, s \in {"ok", "throws"} }

\* The data file is there only under Electron.
SaveInit ==
    \E f \in Faults, e \in BOOLEAN :
        /\ ~e => f.fileFault = "ok"
        /\ EvaluatedWith([FreshStores EXCEPT !.electron = e], f)

\* No activation of saveToStorage is under way.
Idle == ~saveInProgress

\* saveToStorage is called.
SaveCall == Becomes(EnterSave(Tick(St)))

\* The try block and the finally block of the activation under way.
SaveComplete == saveInProgress /\ Becomes(Finally(WriteSection(Tick(St))))

\* setTimeout(() => saveToStorage(), 0) comes due.
TimerFires ==
    /\ Idle
    /\ timers > 0
    /\ Becomes(EnterSave([Tick(St) EXCEPT !.timers = @ - 1]))

SaveNext ==
    \/ Idle /\ SwitchBox
    \/ Idle /\ AddItem
    \/ Idle /\ LoadSession
    \/ SaveCall
    \/ SaveComplete
    \/ TimerFires

SaveSpec == SaveInit /\ [][SaveNext]_vars

(***************************************************************************)
(* The Location Normalizer on its own: switchBox, the handler that takes   *)
(* what the user enters as a location, with the spellings of locations.    *)
(***************************************************************************)
ShelfSpellings == { << "s","h","e","l","f"," ","2","c" >>, << "S","H","E","L","F","2","C" >>, << "s"," ","2","c" >>, << "S","2","C" >> }

BoxSpellings == { << "b","o","x","4","2" >>, << "B","0","4","2" >>, << "4","2" >>, << "B","O","X"," ","0","4","2" >> }

\* Further spellings: a shelf without letter, a number of four digits, two
\* runs of digits, no digit at all.
OtherSpellings == { << "s","1","0" >>, << "1","2","3","4" >>, << "b","7","x","1","2" >>, << "a","t","t","i","c" >> }

LocationSpellings == ShelfSpellings \cup BoxSpellings \cup OtherSpellings

SwitchLocation == \E b \in LocationSpellings : Becomes(switchBox(Tick(St), b))

NormalizeNext == SwitchLocation \/ AddItem \/ Undo

NormalizeSpec == Init /\ [][NormalizeNext]_vars

(***************************************************************************)
(* Properties.                                                             *)
(***************************************************************************)
\* The items of a record, which as stored may lack them.
ItemsOf(boxData) == IF "items" \in DOMAIN boxData THEN boxData.items ELSE <<>>

\* No two items of the sequence have names equal after trimming and
\* case-folding.
DistinctNames(items) ==
    \A i, j \in DOMAIN items : SameName(items[i].name, items[j].name) => i = j

\* C1: in every reachable state no box record of a session (the one of
\* window.BoxData, the module's currentSession, a snapshot) holds two items
\* whose names are equal after trimming and case-folding.
C1_NoDuplicateNames ==
    \A r \in DOMAIN heap : \A b \in DOMAIN heap[r].boxes :
        DistinctNames(ItemsOf(heap[r].boxes[b].data))

\* parseQuantity of the texts of ItemInputs.
ParsedInputs == [n \in ItemInputs |-> parseQuantity(n)]

\* What C2 asks of addItem in a location whose item at idx is named like the
\* parsed name: before are the items before the call, after the items after
\* it.
MergedAtTail(before, after, idx, qty) ==
    /\ Len(after) = Len(before)
    /\ Last(after).id = before[idx].id
    /\ Last(after).name = before[idx].name
    /\ Last(after).qty = before[idx].qty + qty
    /\ Front(after) = RemoveAt(before, idx)

\* An item of before is named like name.
Matched(before, name) == \E i \in DOMAIN before : SameName(before[i].name, name)

\* When an item of before is named like name, one such item is merged.
MergedIfMatched(before, after, name, qty) ==
    Matched(before, name) =>
        \E idx \in DOMAIN before :
            SameName(before[idx].name, name) /\ MergedAtTail(before, after, idx, qty)

\* C2: addItem on the active location with a text whose parsed name matches
\* an existing item keeps the number of items, adds the parsed qty to the
\* item's qty, makes it the last item and keeps the others in their order.
C2_AddMerges ==
    HasCurrentBoxRecord(St) =>
        \A n \in ItemInputs :
            MergedIfMatched(WinBox(St, Val(currentBox)).items,
                            WinBox(addItem(Tick(St), n), Val(currentBox)).items,
                            ParsedInputs[n].name, ParsedInputs[n].qty)

\* A merge has moved an older item behind a newer one, with qty 3 ("pen",
\* "cup", then "Pen x2").
C2_Merged ==
    /\ HasCurrentBoxRecord(St)
    /\ Len(WinBox(St, Val(currentBox)).items) = 2
    /\ WinBox(St, Val(currentBox)).items[2].id < WinBox(St, Val(currentBox)).items[1].id
    /\ WinBox(St, Val(currentBox)).items[2].qty = 3
    /\ WinBox(St, Val(currentBox)).items[2].addedAt = clock

\* What C3 asks of deleteItem(b, itemId) in state a, which ends in state z,
\* when the record at key k holds the item.
DeletedOrKept(a, z, k) ==
    IF Len(WinBox(a, k).items) > 1
    THEN HasWinBox(z, k) /\ Len(WinBox(z, k).items) = Len(WinBox(a, k).items) - 1
    ELSE IF a.currentBox = Some(k)
    THEN HasWinBox(z, k) /\ WinBox(z, k).items = <<>>
    ELSE ~HasWinBox(z, k)

\* C3: deleteItem that removes the last item of a location deletes the
\* location's record when the location is not the active one and leaves an
\* empty record when it is; removing another item never removes the record.
C3_DeleteLastItem ==
    \A b \in BoxInputs : \A k \in { KeyOf(normalizeBoxNumber(b)) } :
        HasWinBox(St, k) =>
            \A i \in ItemIdsOf(WinBox(St, k)) :
                DeletedOrKept(St, deleteItem(Tick(St), b, i), k)

\* deleteItem has deleted the record of a location that is not the active
\* one: the snapshot before the last has a record the session has no more.
C3_RecordDeleted ==
    /\ cur = WinRef
    /\ historyIndex = 1
    /\ \E b \in DOMAIN heap[history[1]].boxes :
          /\ ~HasWinBox(St, heap[history[1]].boxes[b].key)
          /\ currentBox # Some(heap[history[1]].boxes[b].key)
    /\ \E b \in DOMAIN Win(St).boxes : currentBox = Some(Win(St).boxes[b].key)

\* The keys of a session's boxes are fixed points of normalizeBoxNumber.
CanonicalKeys(session) ==
    \A b \in DOMAIN session.boxes :
        normalizeBoxNumber(session.boxes[b].key) = Some(session.boxes[b].key)

\* C4: every key of currentSession.boxes is a fixed point of
\* normalizeBoxNumber, whichever path loadSession took and after any
\* sequence of handlers.
C4_KeysCanonical == CanonicalKeys(Cur(St))

IsCompleted(boxData) == "completed" \in DOMAIN boxData /\ boxData.completed

HasCompletedAt(boxData) == "completedAt" \in DOMAIN boxData /\ ~IsNull(boxData.completedAt)

\* C5: in every session the program holds (window.BoxData.currentSession,
\* currentSession and the snapshots of the history), a box record has a
\* completedAt exactly when it is completed.
C5_CompletedAtIffCompleted ==
    \A r \in DOMAIN heap : \A b \in DOMAIN heap[r].boxes :
        IsCompleted(heap[r].boxes[b].data) <=> HasCompletedAt(heap[r].boxes[b].data)

\* The snapshot at the cursor.
SnapshotAtCursor(d) == d.heap[d.history[d.historyIndex + 1]]

\* window.BoxData.currentSession is deep-equal to the snapshot at the cursor.
LiveAtCursor(d) == Win(d) = SnapshotAtCursor(d)

\* C6: after undo() or redo() has returned true, the session that the
\* handlers mutate and updateDisplay reads, window.BoxData.currentSession,
\* is deep-equal to the snapshot at the new cursor.
C6_LiveEqualsSnapshot ==
    /\ CanUndo(St) => LiveAtCursor(undo(St))
    /\ CanRedo(St) => LiveAtCursor(redo(St))

\* C7: in a state reached by the handlers in which undo() succeeds, undo()
\* followed by redo() leaves currentSession deep-equal to what it was before
\* the undo.
C7_UndoRedoRestores ==
    (~started /\ CanUndo(St)) => Cur(redo(undo(St))) = Cur(St)

\* n calls of saveStateToHistory in a row.
RECURSIVE RecordTimes(_, _)
RecordTimes(d, n) == IF n = 0 THEN d ELSE RecordTimes(saveStateToHistory(d), n - 1)

\* The number of calls of undo in a row that return true.
RECURSIVE UndoCount(_)
UndoCount(d) == IF CanUndo(d) THEN 1 + UndoCount(undo(d)) ELSE 0

\* The history of d is full, the cursor on its last entry, and MaxHistory - 1
\* undos are left.
FullHistory(d) ==
    /\ Len(d.history) = MaxHistory
    /\ d.historyIndex = MaxHistory - 1
    /\ UndoCount(d) = MaxHistory - 1

\* C8: the history never holds more than MaxHistory snapshots, and
\* MaxHistory + 1 calls of saveStateToHistory from an empty history leave
\* MaxHistory entries, the cursor on the last, and undo succeeding exactly
\* MaxHistory - 1 times.
C8_HistoryCap ==
    /\ Len(history) <= MaxHistory
    /\ history = <<>> => FullHistory(RecordTimes(St, MaxHistory + 1))

\* The oldest snapshot was evicted: the history is full with the cursor on
\* its last entry, and the oldest entry left already holds the outcome of
\* two recorded changes, an item added and a box completed.
C8_OldestEvicted ==
    /\ Len(history) = MaxHistory
    /\ historyIndex = MaxHistory - 1
    /\ \E b \in DOMAIN heap[history[1]].boxes :
          /\ heap[history[1]].boxes[b].data.items # <<>>
          /\ heap[history[1]].boxes[b].data.completed

\* What C9 asks of z = saveStateToHistory(d).
RecordedOver(d, z) ==
    /\ z.historyIndex = Len(z.history) - 1
    /\ SnapshotAtCursor(z) = Cur(d)
    /\ ~CanRedo(z)
    /\ \A i \in 1..(Len(z.history) - 1) :
          \E j \in 1..(d.historyIndex + 1) : z.history[i] = d.history[j]

\* A step after which redo() succeeds and before which it did not.
RedoEnabled == ~CanRedo(St) /\ CanRedo(St)'

\* C9: saveStateToHistory leaves the cursor on the last entry, the snapshot
\* there equal to currentSession and no entry that was after the old cursor,
\* so redo() is a no-op after it; redo() succeeds again only after an undo().
C9_RecordDiscardsRedo ==
    /\ [](RecordedOver(St, saveStateToHistory(St)))
    /\ [][RedoEnabled => historyIndex' = historyIndex - 1]_vars

\* addItem has recorded right after an undo: currentSession is the copy the
\* undo made, the last event added an item, and the entry that was after the
\* cursor has given way to a second copy of the undone snapshot.
C9_RecordedAfterUndo ==
    /\ cur # WinRef
    /\ ~started
    /\ \E b \in DOMAIN Win(St).boxes : clock \in ItemIdsOf(Win(St).boxes[b].data)
    /\ Len(history) = 2
    /\ historyIndex = 1
    /\ heap[history[1]] = heap[history[2]]
    /\ Cur(St) = heap[history[2]]

\* The contents of the snapshots, oldest first.
Contents(d) == [i \in DOMAIN d.history |-> d.heap[d.history[i]]]

\* No two entries of the history are one object, and none is the object of
\* window.BoxData.currentSession or of currentSession.
SnapshotsApart ==
    /\ \A i, j \in DOMAIN history : history[i] = history[j] => i = j
    /\ \A i \in DOMAIN history : history[i] # WinRef /\ history[i] # cur

\* A step leaves the content of every snapshot as it was: the history is the
\* same, or it is the entries up to the cursor (less the oldest, at the cap)
\* and one new snapshot.
SnapshotsKept ==
    \/ Contents(St)' = Contents(St)
    \/ /\ Contents(St)' # <<>>
       /\ \/ Front(Contents(St)') = Take(Contents(St), historyIndex + 1)
          \/ Front(Contents(St)') = Tail(Take(Contents(St), historyIndex + 1))

\* C10: the snapshots of the history are objects of their own, apart from
\* one another and from the live session, and no handler changes the content
\* of a snapshot that is in the history.
C10_SnapshotsIndependent ==
    /\ []SnapshotsApart
    /\ [][SnapshotsKept]_vars

\* The session was changed after a snapshot was taken and the snapshot kept
\* its content: the older snapshot holds one item of a box in which the
\* session, equal to the newer snapshot, holds two.
C10_OlderSnapshotKept ==
    /\ cur = WinRef
    /\ Len(history) = 2
    /\ historyIndex = 1
    /\ heap[history[2]] = Win(St)
    /\ \E b \in DOMAIN Win(St).boxes :
          /\ Len(Win(St).boxes[b].data.items) = 2
          /\ HasBox(heap[history[1]].boxes, Win(St).boxes[b].key)
          /\ Len(BoxAt(heap[history[1]].boxes, Win(St).boxes[b].key).items) = 1

\* z is d with the pending flag set and nothing written.
OnlyMarked(d, z) ==
    /\ z.savePending
    /\ z.saveInProgress
    /\ z.primary = d.primary
    /\ z.backup = d.backup
    /\ z.file = d.file
    /\ z.timers = d.timers
    /\ z.saving = d.saving

\* C11: no two saves overlap.  At most one activation of saveToStorage is
\* inside the try block, and a call that arrives while one is there sets
\* savePending and returns without writing to any store.
C11_NoOverlappingSaves ==
    /\ saving <= 1
    /\ saveInProgress <=> saving = 1
    /\ saveInProgress => OnlyMarked(St, saveToStorage(St))

\* A call has arrived while a save was in flight.
C11_CallInFlight == saveInProgress /\ savePending /\ saving = 1

\* What C12 asks of the exit z of the save in flight in d.
ExitedFrom(d, z) ==
    /\ ~z.saveInProgress
    /\ ~z.savePending
    /\ z.timers = d.timers + (IF d.savePending THEN 1 ELSE 0)

\* C12: on every exit path the save in flight clears saveInProgress; it
\* clears savePending and schedules one follow-up save when a call arrived
\* while it was in flight, and schedules none when no call arrived.  A save
\* that runs with no call arriving schedules none.
C12_ExitClearsAndFollowsUp ==
    /\ saveInProgress => ExitedFrom(St, Finally(WriteSection(St)))
    /\ Idle => ExitedFrom(St, saveToStorage(St))
    /\ Idle => ~savePending

\* A save that took the exception path (both stores throw) with a call
\* arrived in flight has ended: one follow-up save is scheduled.
C12_FollowUpScheduled ==
    /\ Idle
    /\ timers = 1
    /\ saveError = Some(ErrorSavingMessage)

\* The write of text to the primary store of d fails: setItem throws or the
\* read-back differs.
PrimaryFails(d, text) == ~Verified(d, text)

\* save() has fallen back: z holds text in the backup store and the
\* backup-only warning, or, the backup store throwing too, the error
\* message and the backup store as it was.
FellBack(d, z, text) ==
    IF d.sessionFault = "ok"
    THEN z.backup = Some(text) /\ z.saveError = Some(BackupOnlyMessage)
    ELSE z.backup = d.backup /\ z.saveError = Some(ErrorSavingMessage)

SameContent(s1, s2) ==
    /\ BoxKeys(s1.boxes) = BoxKeys(s2.boxes)
    /\ \A i \in DOMAIN s1.boxes :
          ItemsOf(s1.boxes[i].data) = ItemsOf(s2.boxes[i].data)

\* A save has a store to write: the Electron provider, a primary store that
\* works or a backup store that works.
SaveHasAStore == electron \/ localFault = "ok" \/ sessionFault = "ok"

\* C14: saveToStorage followed by loadSession gives a session with the keys
\* of currentSession in their order and under each key its items in their
\* order, with either backend and when the save fell back to the backup
\* store.
C14_RoundTrip ==
    (Idle /\ SaveHasAStore) => SameContent(Cur(loadSession(saveToStorage(St)).d), Cur(St))

\* The session loadSession leaves in currentSession.
SessionLoaded(d) == Cur(loadSession(d).d)

\* The backup store plays no part in what loadSession loads in d.
BackupNotConsulted(d) == SessionLoaded(d) = SessionLoaded([d EXCEPT !.backup = Null])

\* Neither store plays a part in what loadSession loads in d.
StoresNotConsulted(d) ==
    SessionLoaded(d) = SessionLoaded([d EXCEPT !.primary = Null, !.backup = Null])

\* With the primary store empty, loadSession loads in d what it would load
\* with the text of the backup store in the primary store, and leaves the
\* primary store holding a text: the session it saved or, when the text does
\* not parse, the copy of the backup.
TakenFromBackup(d, z) ==
    /\ SessionLoaded(d) = SessionLoaded([d EXCEPT !.primary = d.backup, !.backup = Null])
    /\ IF JSONparseOk(Val(d.backup))
       THEN z.primary = Some(JSONstringify(Cur(z)))
       ELSE z.primary = d.backup

LacksBoxes(d) ==
    \/ d.electron
    \/ /\ ~IsNull(Stored(d))
       /\ JSONparseOk(Val(Stored(d)))
       /\ "boxes" \notin DOMAIN JSONparse(Val(Stored(d)))

\* C16: when the object loaded has no boxes, loadSession returns true and
\* currentSession is a session with no id and no locations.
C16_NoBoxesGivesEmptySession ==
    LacksBoxes(St) =>
        /\ loadSession(Tick(St)).ok
        /\ Cur(loadSession(Tick(St)).d).boxes = <<>>
        /\ IsNull(Cur(loadSession(Tick(St)).d).id)
        /\ Cur(loadSession(Tick(St)).d).startedAt = Some(clock + 1)

\* loadSession has replaced a session that had locations by the empty one:
\* the provider is present, window.BoxData.currentSession has a location and
\* currentSession is a later object with no id and none.
C16_EmptySessionLoaded ==
    /\ electron
    /\ ~started
    /\ cur # WinRef
    /\ Win(St).boxes # <<>>
    /\ IsNull(Cur(St).id)
    /\ Cur(St).startedAt = Some(clock)
    /\ Cur(St).boxes = <<>>

\* C17: when loadSession returns true with a session that has an id, init
\* leaves that session, its locations and items, as currentSession and in
\* the primary store.
C17_InitKeepsLoadedSession ==
    (~started /\ loadSession(Tick(St)).ok /\ ~IsNull(SessionLoaded(Tick(St)).id)) =>
        /\ SameContent(Cur(init(Tick(St))), SessionLoaded(Tick(St)))
        /\ init(Tick(St)).primary = Some(JSONstringify(SessionLoaded(Tick(St))))

\* In z a snapshot equal to the session s is at the cursor of the history
\* and the primary store holds the serialized s.
RecordedAndSaved(z, s) ==
    /\ z.historyIndex >= 0
    /\ SnapshotAtCursor(z) = s
    /\ z.primary = Some(JSONstringify(s))

\* Where the handler that took d to z has mutated a session, the mutated
\* session is recorded and saved in z.
MutationRecorded(d, z) ==
    /\ Win(z) # Win(d) => RecordedAndSaved(z, Win(z))
    /\ Cur(z) # Cur(d) => RecordedAndSaved(z, Cur(z))

\* The handlers other than switchBox record and save what they mutate.
ItemHandlersRecord ==
    /\ \A n \in ItemInputs : MutationRecorded(Tick(St), addItem(Tick(St), n))
    /\ \A b \in BoxInputs, i \in KnownIds :
          MutationRecorded(Tick(St), deleteItem(Tick(St), b, i))
    /\ \A b \in BoxInputs : MutationRecorded(Tick(St), toggleBoxComplete(Tick(St), b))
    /\ \A v \in ShelfInputs : MutationRecorded(Tick(St), saveSecondaryLocation(Tick(St), v))
    /\ \A n \in ItemInputs : MutationRecorded(Tick(St), saveEditedItem(Tick(St), n))

\* C18: after switchBox creating a location, addItem, deleteItem,
\* toggleBoxComplete, saveSecondaryLocation or saveEditedItem has mutated a
\* session, the snapshot at the cursor of the history is that mutated
\* session and the primary store holds its serialization.
C18_MutateRecordSave ==
    /\ \A b \in BoxInputs : MutationRecorded(Tick(St), switchBox(Tick(St), b))
    /\ ItemHandlersRecord

\* The texts of the stores of d that parse to a session with boxes.
StoredTexts(d) ==
    { t \in { d.primary, d.backup } :
        ~IsNull(t) /\ JSONparseOk(Val(t)) /\ "boxes" \in DOMAIN JSONparse(Val(t)) }

\* The sessions loadSession can find in the stores of d.
StoredSessions(d) == { JSONparse(Val(t)) : t \in StoredTexts(d) }

\* The session normalizeSessionBoxes makes of s.
NormalizedOf(s) == Cur(normalizeSessionBoxes(AssignCur(St, s)))

\* C19: for every session found in a store, normalizeSessionBoxes applied to
\* its own result gives that result.
C19_NormalizeIdempotent ==
    \A s \in StoredSessions(St) : NormalizedOf(NormalizedOf(s)) = NormalizedOf(s)

\* No key of the session is empty or white space only.
NoBlankKey(s) == \A i \in DOMAIN s.boxes : trim(s.boxes[i].key) # <<>>

\* normalizeSessionBoxes is idempotent on the stored sessions without a
\* blank key.
IdempotentOnNamedKeys ==
    \A s \in StoredSessions(St) :
        NoBlankKey(s) => NormalizedOf(NormalizedOf(s)) = NormalizedOf(s)

\* The items of the entries whose key normalises to k, in the order of the
\* entries.
RECURSIVE SourceItems(_, _)
SourceItems(entries, k) ==
    IF entries = <<>> THEN <<>>
    ELSE (IF KeyOf(normalizeBoxNumber(Head(entries).key)) = k
          THEN ItemsOf(Head(entries).data) ELSE <<>>)
         \o SourceItems(Tail(entries), k)

\* The normalised keys of the entries, each once, in the order they are
\* first seen.
RECURSIVE FirstSeenKeys(_, _)
FirstSeenKeys(entries, seen) ==
    IF entries = <<>> THEN seen
    ELSE FirstSeenKeys(Tail(entries),
                       IF KeyOf(normalizeBoxNumber(Head(entries).key)) \in Range(seen)
                       THEN seen
                       ELSE Append(seen, KeyOf(normalizeBoxNumber(Head(entries).key))))

\* The record of every key of the normalised boxes holds the items of the
\* source entries of that key, concatenated in the order of the entries,
\* each with its quantity normalised.
Concatenated(source, normalized) ==
    /\ BoxKeys(normalized) = FirstSeenKeys(source, <<>>)
    /\ \A i \in DOMAIN normalized :
          normalized[i].data.items =
              [j \in DOMAIN SourceItems(source, normalized[i].key) |->
                  normalizeItem(SourceItems(source, normalized[i].key)[j])]

\* C20: for every session found in a store, normalizeSessionBoxes leaves
\* the normalised keys in first-seen order, and under each key the items of
\* the source records of that key, concatenated in the order the records
\* are iterated: no item lost, duplicated or reordered.
C20_MergeConcatenates ==
    \A s \in StoredSessions(St) : Concatenated(s.boxes, NormalizedOf(s).boxes)

\* loadSession has merged the records of the keys 42 and box42: the first
\* record of currentSession holds the item of 42 and then the two items of
\* box42.
C20_CollidingKeysMerged ==
    /\ cur # WinRef
    /\ Len(Cur(St).boxes) = 2
    /\ [j \in DOMAIN Cur(St).boxes[1].data.items |-> Cur(St).boxes[1].data.items[j].id]
          = << -1, -3, -2 >>

\* The records of the entries whose key normalises to k, in the order of
\* the entries, each with the fields of the schema.
RECURSIVE SourceRecords(_, _)
SourceRecords(entries, k) ==
    IF entries = <<>> THEN <<>>
    ELSE (IF KeyOf(normalizeBoxNumber(Head(entries).key)) = k
          THEN << ensureBoxDataShape(Head(entries).data) >> ELSE <<>>)
         \o SourceRecords(Tail(entries), k)

\* The completedAt values of the records that have one.
CompletedAts(recs) == { Val(recs[i].completedAt) : i \in { j \in DOMAIN recs : ~IsNull(recs[j].completedAt) } }

\* The earliest completedAt of the records, null when none has one.
EarliestCompletedAt(recs) ==
    IF CompletedAts(recs) = {} THEN Null
    ELSE Some(CHOOSE t \in CompletedAts(recs) : \A u \in CompletedAts(recs) : t <= u)

\* The first secondaryLocation of the records that is not null.
RECURSIVE FirstSecondaryLocation(_)
FirstSecondaryLocation(recs) ==
    IF recs = <<>> THEN Null
    ELSE IF ~IsNull(Head(recs).secondaryLocation) THEN Head(recs).secondaryLocation
    ELSE FirstSecondaryLocation(Tail(recs))

\* The merged record is completed iff one of its source records is.
CompletedIfAny(merged, recs) ==
    merged.completed <=> \E i \in DOMAIN recs : recs[i].completed

\* The merged record has the first non-null secondaryLocation of its source
\* records.
FirstShelfKept(merged, recs) == merged.secondaryLocation = FirstSecondaryLocation(recs)

\* The merged record has the earliest completedAt of its source records.
EarliestKept(merged, recs) == merged.completedAt = EarliestCompletedAt(recs)

\* For every session found in a store, the records of the normalised
\* session have the completed flag and the secondaryLocation the claim
\* gives them.
FlagsAndShelfMerged ==
    \A s \in StoredSessions(St) : \A i \in DOMAIN NormalizedOf(s).boxes :
        /\ CompletedIfAny(NormalizedOf(s).boxes[i].data,
                          SourceRecords(s.boxes, NormalizedOf(s).boxes[i].key))
        /\ FirstShelfKept(NormalizedOf(s).boxes[i].data,
                          SourceRecords(s.boxes, NormalizedOf(s).boxes[i].key))

\* C21: for every session found in a store and every key of the session
\* normalizeSessionBoxes makes of it, the record is completed iff one of
\* the source records of the key is, its completedAt is the earliest
\* completedAt of those records and its secondaryLocation the first one
\* that is not null.
C21_MergedFields ==
    /\ FlagsAndShelfMerged
    /\ \A s \in StoredSessions(St) : \A i \in DOMAIN NormalizedOf(s).boxes :
          EarliestKept(NormalizedOf(s).boxes[i].data,
                       SourceRecords(s.boxes, NormalizedOf(s).boxes[i].key))

\* A secondaryLocation is null or a canonical SHELF key.
CanonicalShelf(o) == IsNull(o) \/ normalizeShelfLocation(Val(o)) = o

\* Every record of the session has a canonical secondaryLocation.
ShelvesCanonical(s) ==
    \A i \in DOMAIN s.boxes :
        "secondaryLocation" \in DOMAIN s.boxes[i].data =>
            CanonicalShelf(s.boxes[i].data.secondaryLocation)

\* A text of the secondary-location input that is not empty and not a
\* shelf.
NotAShelf(inputValue) ==
    trim(inputValue) # <<>> /\ IsNull(normalizeShelfLocation(trim(inputValue)))

\* The handler that took d to z has reported the validation failure and
\* done nothing else.
RejectedFrom(d, z) == z = [d EXCEPT !.saveError = Some(ShelfMessage)]

\* The transcript is a secondary command whose word is no shelf.
SaysNoShelf(raw) ==
    /\ ~IsNavigation(raw)
    /\ isExplicitSecondary(raw)
    /\ ~IsNull(secondaryMatch(raw))
    /\ NotAShelf(ShelfWord \o << " " >> \o toUpperCase(Val(secondaryMatch(raw))))

\* The texts of the secondary-location input that are no shelf.
NoShelfInputs == { v \in ShelfInputs : NotAShelf(v) }

\* The transcripts that are a secondary command whose word is no shelf.
NoShelfTranscripts == { t \in Transcripts : SaysNoShelf(trim(toLowerCase(t))) }

\* The secondary location parseLocationInput reads from a text of the item
\* input is a canonical SHELF key.
EnterShelvesCanonical ==
    \A v \in EnterInputs :
        ~IsNull(parseLocationInput(v)) =>
            CanonicalShelf(Val(parseLocationInput(v)).secondary)

\* C22: the secondaryLocation of every record of every session object and
\* of the session in the primary store is null or a canonical SHELF key;
\* with a record for the active location, a text that is not a shelf, from
\* the secondary-location input or from a voice command, is answered by
\* the validation message and changes nothing else; the Enter key never
\* passes such a text on.
C22_InvalidShelfRejected ==
    /\ \A r \in DOMAIN heap : ShelvesCanonical(heap[r])
    /\ \A s \in StoredSessions(St) : ShelvesCanonical(s)
    /\ HasCurrentBoxRecord(St) =>
          \A v \in NoShelfInputs :
              RejectedFrom(Tick(St), saveSecondaryLocation(Tick(St), v))
    /\ (started /\ HasCurrentBoxRecord(St)) =>
          \A t \in NoShelfTranscripts :
              RejectedFrom(Tick(St), processVoiceCommand(Tick(St), t))
    /\ EnterShelvesCanonical

\* A text that is no shelf has been rejected after init, with a record for
\* the active location that has a secondary location.
C22_ShelfRejected ==
    /\ started
    /\ HasCurrentBoxRecord(St)
    /\ ~IsNull(WinBox(St, Val(currentBox)).secondaryLocation)
    /\ saveError = Some(ShelfMessage)

\* The handler that took d to z has left the session objects, the history
\* and its cursor as they were.
SessionUntouched(d, z) ==
    /\ z.heap = d.heap
    /\ z.cur = d.cur
    /\ z.history = d.history
    /\ z.historyIndex = d.historyIndex

\* The location boxNumber names has no record, or none with the item.
ItemMissing(d, boxNumber, itemId) ==
    \/ ~HasWinBox(d, KeyOf(normalizeBoxNumber(boxNumber)))
    \/ IndexOfId(WinBox(d, KeyOf(normalizeBoxNumber(boxNumber))).items, itemId) = 0

\* The item under edit, or its location, is no longer there.
EditedItemMissing(d) ==
    /\ ~IsNull(d.editingItemId)
    /\ \/ ~HasWinBox(d, KeyOf(Val(d.editingItemId).boxNumber))
       \/ IndexOfId(WinBox(d, KeyOf(Val(d.editingItemId).boxNumber)).items,
                    Val(d.editingItemId).itemId) = 0

\* deleteItem of a missing item and toggleBoxComplete of a missing location
\* change nothing.
DeleteAndToggleSilent ==
    /\ \A b \in BoxInputs, i \in KnownIds \cup {0} :
          ItemMissing(St, b, i) => deleteItem(Tick(St), b, i) = Tick(St)
    /\ \A b \in BoxInputs :
          ~HasWinBox(St, KeyOf(normalizeBoxNumber(b))) =>
              toggleBoxComplete(Tick(St), b) = Tick(St)

\* startEditItem and saveEditedItem of a missing item or location throw
\* nothing and leave the session and the history as they were.
EditSilent ==
    /\ \A b \in BoxInputs, i \in KnownIds \cup {0} :
          ItemMissing(St, b, i) =>
              /\ ~StartEditThrows(Tick(St), b)
              /\ SessionUntouched(Tick(St), startEditItem(Tick(St), b, i))
    /\ EditedItemMissing(St) =>
          \A n \in ItemInputs :
              /\ ~SaveEditThrows(Tick(St))
              /\ SessionUntouched(Tick(St), saveEditedItem(Tick(St), n))

\* C23: deleteItem with an id that is not in the location, deleteItem and
\* toggleBoxComplete of a location without a record, startEditItem and
\* saveEditedItem of an item or location that is not there throw nothing
\* and leave the session objects, the history and its cursor unchanged.
C23_NotFoundIsSilent == DeleteAndToggleSilent /\ EditSilent

\* saveEditedItem of an item that is not there, in a location that is,
\* throws nothing and changes nothing but editingItemId.
EditOfMissingItemSilent ==
    (EditedItemMissing(St) /\ ~SaveEditThrows(St)) =>
        \A n \in ItemInputs :
            saveEditedItem(Tick(St), n) = [Tick(St) EXCEPT !.editingItemId = Null]

\* The completed flag and completedAt of every record of the session.
CompletionOf(s) ==
    [i \in DOMAIN s.boxes |->
        [key |-> s.boxes[i].key, completed |-> s.boxes[i].data.completed,
         completedAt |-> s.boxes[i].data.completedAt]]

\* Every record of the session that has items is completed.
NonEmptyCompleted(s) ==
    \A i \in DOMAIN s.boxes : s.boxes[i].data.items # <<>> => s.boxes[i].data.completed

\* loadSession finds in the stores of d a text that parses to a session
\* with boxes.
LoadsSession(d) ==
    /\ ~d.electron
    /\ ~IsNull(Stored(d))
    /\ JSONparseOk(Val(Stored(d)))
    /\ "boxes" \in DOMAIN JSONparse(Val(Stored(d)))

\* The session loadSession finds in the stores of d, normalised.
FoundSession(d) == NormalizedOf(JSONparse(Val(Stored(d))))

\* The first run of markExistingBoxesAsCompleted, in the loadSession that
\* took d to z, has completed every record with items, left the other
\* records as normalizeSessionBoxes gives them and set the flag.
FirstRunMarks(d, z) ==
    /\ z.migrated
    /\ NonEmptyCompleted(Cur(z))
    /\ \A i \in DOMAIN FoundSession(d).boxes :
          ~Unmarked(FoundSession(d).boxes[i].data) =>
              Cur(z).boxes[i] = FoundSession(d).boxes[i]

\* The loadSession that took d to z has left completed and completedAt of
\* every record as normalizeSessionBoxes gives them.
LaterLoadKeeps(d, z) == CompletionOf(Cur(z)) = CompletionOf(FoundSession(d))

\* C24: a loadSession that finds a session while the migration flag is not
\* set completes every location with items and sets the flag; once set the
\* flag stays set, markExistingBoxesAsCompleted changes nothing, and a
\* loadSession changes no completed and no completedAt of the session it
\* finds, whatever the handlers did in between.
C24_MigrationOneShot ==
    /\ []((~migrated /\ LoadsSession(St)) =>
            FirstRunMarks(Tick(St), loadSession(Tick(St)).d))
    /\ [](migrated => markExistingBoxesAsCompleted(St) = St)
    /\ []((migrated /\ LoadsSession(St)) =>
            LaterLoadKeeps(Tick(St), loadSession(Tick(St)).d))
    /\ [][migrated => migrated']_vars

\* The flag is set and the stores hold a session with a record that has
\* items and is not completed: the next loadSession runs the migration on it.
C24_UncompletedAfterMigration ==
    /\ migrated
    /\ LoadsSession(St)
    /\ \E i \in DOMAIN FoundSession(St).boxes :
          Unmarked(FoundSession(St).boxes[i].data)

\* The try block of saveToStorage as the file provider's failure would have
\* it: the LocalStorage branch, with the read back and the backup.
FallsBack(d) == LocalSave(d, JSONstringify(Cur(d)))

\* C25: under Electron, when the save to the data file fails, the try block
\* of saveToStorage does what its LocalStorage branch does: it writes the
\* primary store, reads it back, and on a failed read back writes the backup
\* and shows the warning.
C25_ProviderFailureFallsBack ==
    (electron /\ fileFault = "fails" /\ saveInProgress) =>
        WriteSection(Tick(St)) = FallsBack(Tick(St))

\* The same when the primary store takes the write: the data file's failure
\* leaves the session in the primary store.
C25_PrimaryWrittenWhenItWorks ==
    (electron /\ fileFault = "fails" /\ localFault = "ok" /\ saveInProgress) =>
        WriteSection(Tick(St)) = FallsBack(Tick(St))

\* A save under Electron has run with the data file failing and the primary
\* store failing: nothing holds the session and no message was shown.
C25_SessionLostSilently ==
    /\ electron
    /\ fileFault = "fails"
    /\ localFault # "ok"
    /\ ~saveInProgress
    /\ Cur(St).boxes # <<>>
    /\ IsNull(file) /\ IsNull(primary) /\ IsNull(backup) /\ IsNull(saveError)

\* What undo leaves in memory: the session objects, currentSession, the
\* history and its cursor.
InMemory(d) ==
    [heap |-> d.heap, cur |-> d.cur, history |-> d.history,
     historyIndex |-> d.historyIndex]

\* C26: the voice command "undo" leaves the state that Ctrl+Z leaves: the
\* same session, the same history cursor and the same stored session.
C26_VoiceUndoAsCtrlZ ==
    started => processVoiceCommand(Tick(St), SayUndo) = undoKey(Tick(St))

\* The same for the session, the history and its cursor alone.
C26_VoiceUndoSameInMemory ==
    started => InMemory(processVoiceCommand(Tick(St), SayUndo)) = InMemory(undoKey(Tick(St)))

\* There is something to undo and the two differ in the primary store only:
\* Ctrl+Z has saved the restored session, the voice command has not.
C26_VoiceUndoNotSaved ==
    /\ started
    /\ CanUndo(St)
    /\ undoKey(Tick(St)).primary = Some(JSONstringify(Cur(undo(Tick(St)))))
    /\ processVoiceCommand(Tick(St), SayUndo).primary = primary
    /\ primary # undoKey(Tick(St)).primary

(***************************************************************************)
(* The canonical keys of the spellings.                                    *)
(***************************************************************************)
KeyShelf2C == << "S","H","E","L","F"," ","2","C" >>

KeyBox042 == << "B","O","X","0","4","2" >>

KeyShelf10 == << "S","H","E","L","F"," ","1","0" >>

KeyBox1234 == << "B","O","X","1","2","3","4" >>

KeyBox007 == << "B","O","X","0","0","7" >>

KeyAttic == << "A","T","T","I","C" >>

KeysOfSpellings == { KeyShelf2C, KeyBox042, KeyShelf10, KeyBox1234, KeyBox007, KeyAttic }

\* The eight spellings give the two keys.
SpellingsNormalized ==
    /\ \A s \in ShelfSpellings : normalizeBoxNumber(s) = Some(KeyShelf2C)
    /\ \A s \in BoxSpellings : normalizeBoxNumber(s) = Some(KeyBox042)

\* s, upper-cased and trimmed, is S or SHELF, spaces, digits, letters.
IsShelfSpelling(s) == ~IsNull(normalizeShelfLocation(s))

\* A shelf spelling gives a SHELF key also though it holds digits; any other
\* spelling with a digit gives BOX and the number of its first run of
\* digits, padded with zeros to three digits and never cut.
RuleFollowed(s) ==
    IF IsShelfSpelling(s)
    THEN /\ normalizeBoxNumber(s) = normalizeShelfLocation(s)
         /\ StartsWith(Val(normalizeBoxNumber(s)), ShelfWord \o << " " >>)
    ELSE IF \E i \in DOMAIN s : IsDigit(s[i])
    THEN /\ StartsWith(Val(normalizeBoxNumber(s)), BoxWord)
         /\ Len(Val(normalizeBoxNumber(s))) >= Len(BoxWord) + PadWidth
         /\ parseInt(Drop(Val(normalizeBoxNumber(s)), Len(BoxWord))) = parseInt(FirstDigitRun(s))
         /\ \A i \in DOMAIN Drop(Val(normalizeBoxNumber(s)), Len(BoxWord)) :
              IsDigit(Drop(Val(normalizeBoxNumber(s)), Len(BoxWord))[i])
    ELSE TRUE

SpellingsFollowRule ==
    /\ \A s \in LocationSpellings : RuleFollowed(s)
    /\ normalizeBoxNumber(<< "s","1","0" >>) = Some(KeyShelf10)
    /\ normalizeBoxNumber(<< "1","2","3","4" >>) = Some(KeyBox1234)
    /\ normalizeBoxNumber(<< "b","7","x","1","2" >>) = Some(KeyBox007)

\* C27: normalizeBoxNumber gives SHELF 2C for "shelf 2c", "SHELF2C", "s 2c",
\* "S2C" and BOX042 for "box42", "B042", "42", "BOX 042"; the shelf pattern
\* goes before the box pattern, and a box key is BOX and the first run of
\* digits padded to three; so the active location and the keys of the
\* session, entered in any of the spellings, are canonical keys.
C27_SpellingsNormalized ==
    /\ SpellingsNormalized
    /\ SpellingsFollowRule
    /\ currentBox \in { Null } \cup { Some(k) : k \in KeysOfSpellings }
    /\ \A i \in DOMAIN Cur(St).boxes : Cur(St).boxes[i].key \in KeysOfSpellings

\* Both keys have been entered: the shelf is the active location and the
\* session has a record of the box.
C27_BothKeysEntered ==
    /\ currentBox = Some(KeyShelf2C)
    /\ HasBox(Cur(St).boxes, KeyBox042)

\* The handler that took d to z has recorded history, and an undo() right
\* after it succeeds and makes currentSession the session of before the
\* handler.
UndoRestores(d, z) ==
    z.history # d.history =>
        /\ CanUndo(z)
        /\ Cur(undo(z)) \in { Win(d), Cur(d) }

\* The same for a handler that found the session of d at the cursor of the
\* history.
UndoRestoresRecorded(d, z) ==
    (d.historyIndex >= 0 /\ SnapshotAtCursor(d) = Win(d)) => UndoRestores(d, z)

\* C28: after addItem, deleteItem, toggleBoxComplete, saveSecondaryLocation
\* or saveEditedItem has recorded history, an undo() at once succeeds and
\* restores the session of just before the operation, the first operation
\* included.
C28_UndoRestoresBefore ==
    /\ \A n \in ItemInputs : UndoRestores(Tick(St), addItem(Tick(St), n))
    /\ \A b \in BoxInputs, i \in KnownIds :
          UndoRestores(Tick(St), deleteItem(Tick(St), b, i))
    /\ \A b \in BoxInputs : UndoRestores(Tick(St), toggleBoxComplete(Tick(St), b))
    /\ \A v \in ShelfInputs : UndoRestores(Tick(St), saveSecondaryLocation(Tick(St), v))
    /\ \A n \in ItemInputs : UndoRestores(Tick(St), saveEditedItem(Tick(St), n))

\* The same for the operations that find the session they start from
\* recorded at the cursor.
C28_UndoRestoresRecorded ==
    /\ \A n \in ItemInputs : UndoRestoresRecorded(Tick(St), addItem(Tick(St), n))
    /\ \A b \in BoxInputs, i \in KnownIds :
          UndoRestoresRecorded(Tick(St), deleteItem(Tick(St), b, i))
    /\ \A b \in BoxInputs : UndoRestoresRecorded(Tick(St), toggleBoxComplete(Tick(St), b))
    /\ \A v \in ShelfInputs :
          UndoRestoresRecorded(Tick(St), saveSecondaryLocation(Tick(St), v))
    /\ \A n \in ItemInputs : UndoRestoresRecorded(Tick(St), saveEditedItem(Tick(St), n))

\* The first operation has recorded history and there is nothing to undo.
C28_FirstOperationNotUndone ==
    /\ Len(history) = 1
    /\ historyIndex = 0
    /\ ~CanUndo(St)
    /\ \E i \in DOMAIN Cur(St).boxes : Cur(St).boxes[i].data.items # <<>>

\* C29: whenever an active location is set, the live session
\* window.BoxData.currentSession holds a record under its key.
C29_ActiveLocationHasRecord == ~IsNull(currentBox) => HasCurrentBoxRecord(St)

\* The same before init has run, while window.BoxData.currentSession and
\* currentSession are one object, and without undo or redo.
C29_RecordWhileNotRebound == (~IsNull(currentBox) /\ cur = WinRef) => HasCurrentBoxRecord(St)

\* An active location is set, its record is in currentSession and not in
\* window.BoxData.currentSession.
C29_RecordOnlyInCurrentSession ==
    /\ ~IsNull(currentBox)
    /\ HasBox(Cur(St).boxes, Val(currentBox))
    /\ ~HasWinBox(St, Val(currentBox))

\* init has not run, and undo has made currentSession a snapshot taken
\* before the active location got its record.
C29_UndoDropsRecord ==
    /\ ~started
    /\ ~IsNull(currentBox)
    /\ ~HasBox(Cur(St).boxes, Val(currentBox))

\* window.CONFIG?.MAX_HISTORY_SIZE || 50
DefaultMaxHistory == 50

\* What window.CONFIG.MAX_HISTORY_SIZE may be set to.
ConfiguredCaps == (-1)..(MaxHistory + 1)

EffectiveCap(c) == IF c = 0 THEN DefaultMaxHistory ELSE c

\* saveStateToHistory up to the test of the cap.
Recorded(d) ==
    [Allocate(d, NewRef(d), DeepCopy(Cur(d))) EXCEPT
        !.history = Pushed(d, NewRef(d)),
        !.historyIndex = Len(Pushed(d, NewRef(d))) - 1]

\* saveStateToHistory with MAX_HISTORY_SIZE configured as c.
RecordedAt(d, c) ==
    IF Len(Recorded(d).history) > EffectiveCap(c)
    THEN [Recorded(d) EXCEPT !.history = Tail(@), !.historyIndex = @ - 1]
    ELSE Recorded(d)

\* historyIndex is -1 exactly when the history is empty, and otherwise an
\* index of the history.
CursorConsistent(d) ==
    /\ d.historyIndex = -1 <=> d.history = <<>>
    /\ d.history # <<>> => 0 <= d.historyIndex /\ d.historyIndex <= Len(d.history) - 1

\* C30: historyIndex is -1 exactly when the history is empty and otherwise
\* lies in 0 .. length - 1, after any sequence of handlers that record, undo
\* and redo, and after a record under any configured cap.
C30_CursorConsistent ==
    /\ CursorConsistent(St)
    /\ \A c \in ConfiguredCaps : CursorConsistent(RecordedAt(St, c))
    /\ RecordedAt(St, MaxHistory) = saveStateToHistory(St)

\* The history is full and its oldest snapshot has two items: more than
\* MaxHistory snapshots were recorded and the first was evicted.
C30_SnapshotEvicted ==
    /\ Len(history) = MaxHistory
    /\ \E i \in DOMAIN heap[history[1]].boxes :
          Len(heap[history[1]].boxes[i].data.items) >= 2
    /\ CanUndo(St)

=============================================================================
